---- MODULE Spec2Model ----
(***************************************************************************)
(* Model of the streaming-response reduction and rendering pipeline of     *)
(* the chatbot front-end (src/app.py): the chunk reducer                   *)
(* reduce_chat_agent_chunks, the dispatcher query_endpoint_and_render and  *)
(* the three streaming adapters with their one-shot non-streaming          *)
(* fallback.                                                               *)
(*                                                                         *)
(* Conventions.  Python None of a string-typed field is the sentinel None; *)
(* an Optional list is <<>> (None) or <<list>> (the list).  Python dicts   *)
(* that are iterated in insertion order are sequences of entries.          *)
(***************************************************************************)
EXTENDS Integers, Sequences, FiniteSets, TLC

\* ------------------------------------------------------------------ bounds
MaxChunks == 3      \* longest fragment list handed to the reducer
MaxCalls == 2       \* calls of the reducer on one fragment list
MaxStream == 3      \* longest fragment stream of one exchange
MaxTurns == 2       \* submissions of one session
MaxSessionStream == 1   \* longest fragment stream of a turn of a session
MaxSubmissions == 2     \* submissions accepted by one page of app_dash
MaxDashTurns == 3       \* submissions of a user who waits for each answer
MaxSenders == 2         \* calls of send_telemetry_with_retry under way at once
MaxClicks == 3          \* clicks on thumbs buttons

\* ------------------------------------------------------------ Python values
None == "<None>"

\* bool(x) of an Optional[str]: None and "" are falsy
Truthy(s) == s # None /\ s # ""

NoList == <<>>
SomeList(l) == <<l>>
\* bool(x) of an Optional[list]: None and [] are falsy
TruthyList(ol) == ol # NoList /\ ol[1] # <<>>

RECURSIVE Join(_)
\* "".join(parts)
Join(parts) == IF parts = <<>> THEN "" ELSE Head(parts) \o Join(Tail(parts))

\* ---------------------------------------------- fragments of the chat agent
\* mlflow ToolCall: id, type and function (name, arguments) are required strs
ToolCall(id, name, arguments) ==
    [id |-> id, type |-> "function",
     function |-> [name |-> name, arguments |-> arguments]]

\* mlflow ChatAgentMessage as carried by ChatAgentChunk.delta
Delta(id, role, content, tool_calls, tool_call_id) ==
    [id |-> id, role |-> role, content |-> content,
     tool_calls |-> tool_calls, tool_call_id |-> tool_call_id]

CallIds == {"c1", "c2"}
FuncNames == {"", "f"}
ArgFragments == {"{", "}"}

\* every call id with and without a name, plus a delta renaming c1
ToolCallDeltas ==
    {ToolCall(c, n, a) : c \in CallIds, n \in FuncNames, a \in ArgFragments}
    \cup {ToolCall("c1", "g", "}")}

\* the deltas of one message id the reducer is exercised on
DeltasOf(mid) ==
    {Delta(mid, "assistant", c, NoList, None) : c \in {None, "", "Hel", "lo"}}
    \cup {Delta(mid, "assistant", None, SomeList(<<tc>>), None) :
            tc \in ToolCallDeltas}
    \cup { Delta(mid, "assistant", "", SomeList(<<>>), None),
           Delta(mid, "assistant", "Hel", SomeList(<<>>), None),
           Delta(mid, "assistant", None,
                 SomeList(<<ToolCall("", "f", "{")>>), None),
           Delta(mid, "assistant", None,
                 SomeList(<<ToolCall("c1", "f", "{"),
                            ToolCall("c2", "g", "{")>>), None),
           Delta(mid, "assistant", "lo",
                 SomeList(<<ToolCall("c2", "", "}"),
                            ToolCall("c1", "", "}")>>), None),
           Delta(mid, "tool", "lo", NoList, "c1") }

Chunk(delta) == [delta |-> delta]

RECURSIVE SeqsUpTo(_, _)
\* all sequences over S of length at most n
SeqsUpTo(S, n) ==
    IF n = 0 THEN {<<>>}
    ELSE LET shorter == SeqsUpTo(S, n - 1)
         IN  shorter \cup {Append(s, x) : s \in {t \in shorter : Len(t) = n - 1},
                                         x \in S}
\* mutant: msg_contents = [delta.content] (the buffer is overwritten)
AppendContentOverwrites(msg_contents, content) ==
    IF Truthy(content) THEN <<content>> ELSE msg_contents

\* ------------------------------------------------- reduce_chat_agent_chunks
\* if delta.content: msg_contents.append(delta.content)
AppendContent(msg_contents, content) ==
    IF Truthy(content) THEN Append(msg_contents, content) ELSE msg_contents
\* mutant: the arguments of an existing call are overwritten, not extended
AccumulateArgumentsOverwrites(existing_args, func_args) == func_args

\* existing_args + func_args
AccumulateArguments(existing_args, func_args) == existing_args \o func_args
\* mutant: the name is assigned whether or not the delta supplies one
UpdateNameAlways(existing_name, func_name) == func_name

\* if func_name: tool_call_map[call_id]["function"]["name"] = func_name
UpdateName(existing_name, func_name) ==
    IF Truthy(func_name) THEN func_name ELSE existing_name

InMap(tool_call_map, call_id) ==
    \E i \in 1..Len(tool_call_map) : tool_call_map[i].id = call_id

IndexInMap(tool_call_map, call_id) ==
    CHOOSE i \in 1..Len(tool_call_map) : tool_call_map[i].id = call_id

\* mutant: a new call id is put in front of the ids already in the map
AccumulateToolCallInsertsFirst(tool_call_map, tool_call) ==
    LET call_id == tool_call.id
        func_name == tool_call.function.name
        func_args == tool_call.function.arguments
    IN  IF ~Truthy(call_id) THEN tool_call_map
        ELSE IF ~InMap(tool_call_map, call_id)
        THEN <<[id |-> call_id, type |-> tool_call.type,
                function |-> [name |-> func_name,
                              arguments |-> func_args]]>> \o tool_call_map
        ELSE LET i == IndexInMap(tool_call_map, call_id)
             IN  [tool_call_map EXCEPT
                    ![i].function.arguments = AccumulateArguments(@, func_args),
                    ![i].function.name = UpdateName(@, func_name)]

\* the body of "for tool_call in delta.tool_calls"
AccumulateToolCall(tool_call_map, tool_call) ==
    LET call_id == tool_call.id
        func_name == tool_call.function.name
        func_args == tool_call.function.arguments
    IN  IF ~Truthy(call_id) THEN tool_call_map
        ELSE IF ~InMap(tool_call_map, call_id)
        THEN Append(tool_call_map,
                    [id |-> call_id, type |-> tool_call.type,
                     function |-> [name |-> func_name,
                                   arguments |-> func_args]])
        ELSE LET i == IndexInMap(tool_call_map, call_id)
             IN  [tool_call_map EXCEPT
                    ![i].function.arguments = AccumulateArguments(@, func_args),
                    ![i].function.name = UpdateName(@, func_name)]

RECURSIVE FoldToolCalls(_, _)
FoldToolCalls(tool_call_map, tool_calls) ==
    IF tool_calls = <<>> THEN tool_call_map
    ELSE FoldToolCalls(AccumulateToolCall(tool_call_map, Head(tool_calls)),
                       Tail(tool_calls))

\* In-place attribute assignment on the object result_msg refers to: while
\* result_msg still aliases first_delta the write lands in the input.
setattr_in_place(st, field, value) ==
    [st EXCEPT !.result_msg = [@ EXCEPT ![field] = value],
               !.first_delta = IF st.result_is_first
                               THEN [@ EXCEPT ![field] = value] ELSE @]

\* result_msg = result_msg.model_copy(update={field: value}): a new object;
\* the object result_msg referred to is left as it was.
model_copy(st, field, value) ==
    [st EXCEPT !.result_msg = [@ EXCEPT ![field] = value],
               !.result_is_first = FALSE]

\* the body of "for delta in deltas"
ReduceDelta(st, delta) ==
    LET st1 == [st EXCEPT
                  !.msg_contents = AppendContent(@, delta.content),
                  !.tool_call_map =
                      IF TruthyList(delta.tool_calls)
                      THEN FoldToolCalls(@, delta.tool_calls[1]) ELSE @]
    IN  IF Truthy(delta.tool_call_id)
        THEN model_copy(st1, "tool_call_id", delta.tool_call_id)
        ELSE st1

RECURSIVE FoldDeltas(_, _)
FoldDeltas(st, deltas) ==
    IF deltas = <<>> THEN st
    ELSE FoldDeltas(ReduceDelta(st, Head(deltas)), Tail(deltas))

\* The whole call on a non-empty list: the returned message and the list as
\* the call leaves it (deltas[0] is the only input object result_msg aliases).
ReduceRun(chunks) ==
    LET deltas == [i \in 1..Len(chunks) |-> chunks[i].delta]
        st0 == [first_delta |-> deltas[1], result_msg |-> deltas[1],
                result_is_first |-> TRUE, msg_contents |-> <<>>,
                tool_call_map |-> <<>>]
        st1 == FoldDeltas(st0, deltas)
        st2 == IF st1.tool_call_map # <<>>
               THEN model_copy(st1, "tool_calls", SomeList(st1.tool_call_map))
               ELSE st1
        st3 == model_copy(st2, "content", Join(st2.msg_contents))
    IN  [msg |-> st3.result_msg,
         chunks |-> [chunks EXCEPT ![1].delta = st3.first_delta]]

reduce_chat_agent_chunks(chunks) == ReduceRun(chunks).msg

\* ------------------------------------------------------------- wire shapes
\* value of chunk["databricks_output"]: the key is missing (NoOutput) or the
\* envelope holds databricks_request_id (None when that key is missing)
NoOutput == "<no databricks_output>"
RequestIds == {"r1", "r2"}

\* chat/completions raw chunk.  choices: "absent" (no key), "empty" ([]),
\* "delta" (choices[0]["delta"]["content"] = content, None when missing) or
\* "null_delta" (choices[0]["delta"] is null)
CompletionsChunk(choices, content, output) ==
    [choices |-> choices, content |-> content, databricks_output |-> output]

CompletionsChunks ==
    {CompletionsChunk("delta", c, NoOutput) : c \in {None, "", "Hel", "lo"}}
    \cup {CompletionsChunk("delta", "lo", r) : r \in RequestIds \cup {None}}
    \cup {CompletionsChunk(k, None, o) : k \in {"absent", "empty"},
                                         o \in {NoOutput, "r1"}}
    \cup {CompletionsChunk("null_delta", None, NoOutput)}

\* agent/v2/chat raw chunk: valid says whether ChatAgentChunk.model_validate
\* accepts it; delta is the validated chunk's delta
AgentRawChunk(valid, delta, output) ==
    [valid |-> valid, delta |-> delta, databricks_output |-> output]

MessageIds == {"A", "B"}

AgentDeltas ==
    {Delta(m, "assistant", c, NoList, None) :
        m \in MessageIds, c \in {"Hel", "lo"}}
    \cup {Delta(m, "assistant", None, SomeList(<<ToolCall("c1", n, "{")>>), None) :
            m \in MessageIds, n \in {"", "f"}}
    \cup {Delta(None, "assistant", "lo", NoList, None)}

AgentRawChunks ==
    {AgentRawChunk(TRUE, d, NoOutput) : d \in AgentDeltas}
    \cup {AgentRawChunk(TRUE, Delta("A", "assistant", "", NoList, None), r) :
            r \in RequestIds}
    \cup {AgentRawChunk(FALSE, Delta(None, None, None, NoList, None), NoOutput)}

\* agent/v1/responses raw event.  has_type: the "type" key is there; valid:
\* ResponsesAgentStreamEvent.model_validate accepts it; item: <<>> when the
\* event has no item, else <<item>>
ContentPart(type, text) == [type |-> type, text |-> text]

Item(type, content, call_id, name, arguments, output) ==
    [type |-> type, content |-> content, call_id |-> call_id, name |-> name,
     arguments |-> arguments, output |-> output]

MessageItem(content) == Item("message", content, None, None, None, None)
FunctionCallItem(call_id, name, arguments) ==
    Item("function_call", <<>>, call_id, name, arguments, None)
FunctionCallOutputItem(call_id, output) ==
    Item("function_call_output", <<>>, call_id, None, None, output)

ResponsesEvent(has_type, valid, item, output) ==
    [has_type |-> has_type, valid |-> valid, item |-> item,
     databricks_output |-> output]

Items ==
    {MessageItem(parts) :
        parts \in { <<>>, <<ContentPart("output_text", "Hi")>>,
                    <<ContentPart("output_text", "")>>,
                    <<ContentPart("refusal", "no")>>,
                    <<ContentPart("output_text", "Hi"),
                      ContentPart("output_text", "there")>> }}
    \cup { FunctionCallItem("c1", "f", "{}"),
           FunctionCallOutputItem("c1", "ok"),
           Item("reasoning", <<>>, None, None, None, None) }

ResponsesEvents ==
    {ResponsesEvent(TRUE, TRUE, <<it>>, NoOutput) : it \in Items}
    \cup { ResponsesEvent(TRUE, TRUE, <<>>, NoOutput),
           ResponsesEvent(TRUE, TRUE, <<>>, "r1"),
           ResponsesEvent(FALSE, TRUE, <<>>, "r2"),
           ResponsesEvent(FALSE, TRUE, <<MessageItem(<<ContentPart("output_text", "Hi")>>)>>,
                          NoOutput),
           ResponsesEvent(TRUE, FALSE, <<>>, NoOutput) }

\* what query_endpoint returns: (messages, request_id)
SyncResult(messages, request_id) ==
    [messages |-> messages, request_id |-> request_id]

SyncResults ==
    { SyncResult(<<[role |-> "assistant", content |-> "sync"]>>, "r9"),
      SyncResult(<<[role |-> "assistant", content |-> "sync"]>>, None),
      SyncResult(<<[role |-> "assistant", content |-> "Hel"],
                   [role |-> "assistant", content |-> "sync"]>>, "r1") }

Prompts == {"hi"}

\* -------------------------------------------------------------- rendering
\* content of an st.empty() placeholder
Markdown(text) == [kind |-> "markdown", text |-> text, messages |-> <<>>]
Empty == [kind |-> "empty", text |-> "", messages |-> <<>>]
Container(messages) == [kind |-> "container", text |-> "", messages |-> messages]

Thinking == Markdown("_Thinking..._")
Retrying == Markdown("_Ran into an error. Retrying without streaming..._")

AssistantResponse(messages, request_id) ==
    [messages |-> messages, request_id |-> request_id]

\* message.model_dump_compat(exclude_none=True): the fields that are not None
model_dump_compat(msg) ==
    LET kept == {f \in {"id", "role", "content", "tool_call_id"} : msg[f] # None}
                \cup (IF msg.tool_calls # NoList THEN {"tool_calls"} ELSE {})
    IN  [f \in kept |-> IF f = "tool_calls" THEN msg.tool_calls[1] ELSE msg[f]]

\* ------------------------------------------------------------- dispatcher
TaskTypes ==
    {"agent/v1/responses", "agent/v2/chat", "chat/completions",
     "llm/v1/embeddings", None}

Adapters ==
    {"query_responses_endpoint_and_render",
     "query_chat_agent_endpoint_and_render",
     "query_chat_completions_endpoint_and_render"}
\* mutant: only the three known task types are dispatched
query_endpoint_and_render_strict(tt) ==
    IF tt = "agent/v1/responses" THEN "query_responses_endpoint_and_render"
    ELSE IF tt = "agent/v2/chat" THEN "query_chat_agent_endpoint_and_render"
    ELSE IF tt = "chat/completions"
    THEN "query_chat_completions_endpoint_and_render"
    ELSE "unsupported task type"

\* the adapter query_endpoint_and_render hands the turn to
query_endpoint_and_render(tt) ==
    IF tt = "agent/v1/responses" THEN "query_responses_endpoint_and_render"
    ELSE IF tt = "agent/v2/chat" THEN "query_chat_agent_endpoint_and_render"
    ELSE "query_chat_completions_endpoint_and_render"

\* ------------------------------------------------------------------- state
VARIABLES
    chunks,               \* reducer: the fragment list as it is in memory
    received,             \* reducer: the fragment list as it was received
    results,              \* reducer: what each call returned, in call order
    pc,                   \* "idle", "stream", "fallback", "done", "error"
    task_type,            \* _get_endpoint_task_type(SERVING_ENDPOINT)
    adapter,              \* the adapter the dispatcher handed the turn to
    input_messages,       \* the messages of the turn's request
    consumed,             \* the raw fragments query_endpoint_stream yielded
    accumulated_content,  \* chat completions: running text
    request_id,           \* the adapters' local request_id
    message_buffers,      \* chat agent: OrderedDict id -> chunks, render_area
    all_messages,         \* responses: flat list of output messages
    response_area,        \* what the st.empty() placeholder shows
    raised,               \* the try block raised
    sync_calls,           \* calls of query_endpoint in this turn
    sync_args,            \* the messages query_endpoint was called with
    sync_returned,        \* <<>> or <<what query_endpoint returned>>
    response,             \* <<>> or <<the AssistantResponse returned>>
    reduce_lens,          \* lengths of the lists handed to the reducer
    history,              \* st.session_state.history
    db_initialized,       \* st.session_state.db_initialized
    viewing_history,      \* st.session_state.viewing_history: <<>> or <<row>>
    db_chat_history,      \* rows of the chat_history table, oldest first
    logged,               \* the kinds of error the logger has recorded
    save_calls,           \* calls of save_chat_interaction in this turn
    chat_messages,        \* app_dash: children of "chat-messages"
    chat_input_value,     \* app_dash: value of "chat-input-fixed"
    welcome_class,        \* app_dash: className of "welcome-container"
    chat_list,            \* app_dash: children of "chat-list"
    chat_trigger,         \* app_dash: data of the "chat-trigger" store
    chat_history_store,   \* app_dash: data of the "chat-history-store" store
    query_running_store,  \* app_dash: data of the "query-running-store" store
    session_store,        \* app_dash: current_session, <<>> for None
    inputs_disabled,      \* app_dash: disabled of input, send, new-chat buttons
    toggle_pending,       \* app_dash: <<>> or <<value>> toggle_input_disabled
                          \*   was called with and has not answered yet
    calls,                \* app_dash: get_model_response calls under way
    completed,            \* app_dash: get_model_response calls that returned
    stream,               \* app_dash: the global Zerobus stream, None or "open"
    stream_initialized,   \* app_dash: the global flag
    senders,              \* app_dash: calls of send_telemetry_with_retry,
                          \*   each with its place in the retry loop
    feedback              \* app_dash: <<>> or <<the latest call of
                          \*   handle_feedback, its arguments and outputs>>

rvars == <<chunks, received, results>>

avars == <<pc, task_type, adapter, input_messages, consumed,
           accumulated_content, request_id, message_buffers, all_messages,
           response_area, raised, sync_calls, sync_args, sync_returned,
           response, reduce_lens>>

svars == <<history, db_initialized, viewing_history, db_chat_history, logged,
           save_calls>>

dvars == <<chat_messages, chat_input_value, welcome_class, chat_list,
           chat_trigger, chat_history_store, query_running_store,
           session_store, inputs_disabled, toggle_pending, calls, completed,
           stream, stream_initialized, senders, feedback>>

vars == <<rvars, avars, svars, dvars>>

\* no turn under way
Idle ==
    /\ pc = "idle"
    /\ task_type = None
    /\ adapter = None
    /\ input_messages = <<>>
    /\ consumed = <<>>
    /\ accumulated_content = ""
    /\ request_id = None
    /\ message_buffers = <<>>
    /\ all_messages = <<>>
    /\ response_area = Empty
    /\ raised = FALSE
    /\ sync_calls = 0
    /\ sync_args = <<>>
    /\ sync_returned = <<>>
    /\ response = <<>>
    /\ reduce_lens = {}

\* a session without database in which nothing was submitted
NoSession ==
    /\ history = <<>>
    /\ db_initialized = FALSE
    /\ viewing_history = <<>>
    /\ db_chat_history = <<>>
    /\ logged = {}
    /\ save_calls = 0

\* the page of app_dash as laid out, nothing submitted
NoTrigger == [trigger |-> FALSE, message |-> ""]

FreshPage ==
    /\ chat_messages = <<>>
    /\ chat_input_value = ""
    /\ welcome_class = "welcome-container visible"
    /\ chat_list = <<>>
    /\ chat_trigger = NoTrigger
    /\ chat_history_store = <<>>
    /\ query_running_store = FALSE
    /\ session_store = <<>>
    /\ inputs_disabled = FALSE
    /\ toggle_pending = <<>>
    /\ calls = <<>>
    /\ completed = 0
    /\ feedback = <<>>

\* app_dash is not running
NoDash ==
    /\ FreshPage
    /\ stream = None
    /\ stream_initialized = TRUE
    /\ senders = <<>>

\* ------------------------------------------- the reducer on its own inputs
\* a fragment list of one message, at least one element
InitReduce ==
    /\ received \in {s \in SeqsUpTo({Chunk(d) : d \in DeltasOf("m1")}, MaxChunks) :
                        s # <<>>}
    /\ chunks = received
    /\ results = <<>>
    /\ Idle
    /\ NoSession
    /\ NoDash

CallReduce ==
    /\ Len(results) < MaxCalls
    /\ results' = Append(results, reduce_chat_agent_chunks(chunks))
    /\ chunks' = ReduceRun(chunks).chunks
    /\ UNCHANGED <<received, avars, svars, dvars>>

NextReduce == CallReduce

SpecReduce == InitReduce /\ [][NextReduce]_vars

\* ---------------------------------------------------- the streaming adapters
\* mutant: the first request id seen is kept
update_request_id_keeps_first(current, output) ==
    IF current # None THEN current
    ELSE IF output # NoOutput /\ Truthy(output) THEN output ELSE current

\* req_id = <envelope>.get("databricks_request_id"); if req_id: request_id = req_id
update_request_id(current, output) ==
    IF output # NoOutput /\ Truthy(output) THEN output ELSE current

\* the except clause up to its call of query_endpoint
EnterFallback ==
    /\ raised' = TRUE
    /\ response_area' = Retrying
    /\ sync_calls' = sync_calls + 1
    /\ sync_args' = input_messages
    /\ pc' = "fallback"
\* mutant: the streamed request id survives when the fallback returns none
fallback_response_keeps_streamed_id(sync_result, streamed_request_id) ==
    AssistantResponse(sync_result.messages,
                      IF sync_result.request_id = None
                      THEN streamed_request_id ELSE sync_result.request_id)

\* AssistantResponse(messages=messages, request_id=request_id) of the except
\* clause, after "messages, request_id = query_endpoint(...)" has rebound
\* the local request_id (streamed_request_id is the value it held before)
fallback_response(sync_result, streamed_request_id) ==
    AssistantResponse(sync_result.messages, sync_result.request_id)

\* chat completions: chunk["choices"][0].get("delta", {}).get(...) on a chunk
\* whose delta is null raises AttributeError
CompletionsRaises(chunk) == chunk.choices = "null_delta"

\* mutant: accumulated_content = content (the delta replaces the buffer)
accumulate_content_replaces(accumulated, chunk) ==
    IF chunk.choices = "delta" /\ Truthy(chunk.content)
    THEN chunk.content ELSE accumulated

\* if content: accumulated_content += content
accumulate_content(accumulated, chunk) ==
    IF chunk.choices = "delta" /\ Truthy(chunk.content)
    THEN accumulated \o chunk.content ELSE accumulated

\* chat agent: look up or create the buffer of message_id, append the chunk
HasBuffer(buffers, message_id) ==
    \E i \in 1..Len(buffers) : buffers[i].id = message_id

BufferIndex(buffers, message_id) ==
    CHOOSE i \in 1..Len(buffers) : buffers[i].id = message_id
\* mutant: an id that receives a fragment moves to the end (move_to_end)
AppendChunkMovesToEnd(buffers, message_id, chunk) ==
    LET old == IF HasBuffer(buffers, message_id)
               THEN buffers[BufferIndex(buffers, message_id)]
               ELSE [id |-> message_id, chunks |-> <<>>, render_area |-> Empty]
        others == SelectSeq(buffers, LAMBDA b : b.id # message_id)
    IN  Append(others, [old EXCEPT !.chunks = Append(@, chunk)])

\* mutant: the buffer of a new id is put in front of the existing ones
AppendChunkInsertsFirst(buffers, message_id, chunk) ==
    IF HasBuffer(buffers, message_id)
    THEN [buffers EXCEPT ![BufferIndex(buffers, message_id)].chunks =
                            Append(@, chunk)]
    ELSE <<[id |-> message_id, chunks |-> <<chunk>>, render_area |-> Empty]>>
         \o buffers

\* mutant: the buffer is created but the fragment is not yet appended
AppendChunkCreatesOnly(buffers, message_id, chunk) ==
    IF HasBuffer(buffers, message_id)
    THEN [buffers EXCEPT ![BufferIndex(buffers, message_id)].chunks =
                            Append(@, chunk)]
    ELSE Append(buffers, [id |-> message_id, chunks |-> <<>>,
                          render_area |-> Empty])

AppendChunk(buffers, message_id, chunk) ==
    LET created == IF HasBuffer(buffers, message_id) THEN buffers
                   ELSE Append(buffers, [id |-> message_id, chunks |-> <<>>,
                                         render_area |-> Empty])
        i == BufferIndex(created, message_id)
    IN  [created EXCEPT ![i].chunks = Append(@, chunk)]

\* deltas[0] of an empty list raises IndexError
ReduceRaises(chunk_list) == chunk_list = <<>>

\* responses: the messages one item adds to all_messages
RECURSIVE OutputTexts(_)
OutputTexts(content_parts) ==
    IF content_parts = <<>> THEN <<>>
    ELSE LET part == Head(content_parts)
         IN  (IF part.type = "output_text" /\ Truthy(part.text)
              THEN <<[role |-> "assistant", content |-> part.text]>>
              ELSE <<>>) \o OutputTexts(Tail(content_parts))
\* mutant: a message item always yields one message, its text parts joined
ItemMessagesJoined(item) ==
    IF item.type = "message"
    THEN <<[role |-> "assistant",
            content |-> Join([i \in 1..Len(OutputTexts(item.content)) |->
                                 OutputTexts(item.content)[i].content])]>>
    ELSE IF item.type = "function_call"
    THEN <<[role |-> "assistant", content |-> "",
            tool_calls |-> <<[id |-> item.call_id, type |-> "function",
                              function |-> [name |-> item.name,
                                            arguments |-> item.arguments]]>>]>>
    ELSE IF item.type = "function_call_output"
    THEN <<[role |-> "tool", content |-> item.output,
            tool_call_id |-> item.call_id]>>
    ELSE <<>>

ItemMessages(item) ==
    IF item.type = "message" THEN OutputTexts(item.content)
    ELSE IF item.type = "function_call"
    THEN <<[role |-> "assistant", content |-> "",
            tool_calls |-> <<[id |-> item.call_id, type |-> "function",
                              function |-> [name |-> item.name,
                                            arguments |-> item.arguments]]>>]>>
    ELSE IF item.type = "function_call_output"
    THEN <<[role |-> "tool", content |-> item.output,
            tool_call_id |-> item.call_id]>>
    ELSE <<>>
\* mutant: the item is read whether or not the event has the "type" key
EventMessagesIgnoresType(raw_event) ==
    IF raw_event.item # <<>> THEN ItemMessages(raw_event.item[1]) ELSE <<>>

\* the messages one raw event adds
EventMessages(raw_event) ==
    IF raw_event.has_type /\ raw_event.item # <<>>
    THEN ItemMessages(raw_event.item[1]) ELSE <<>>

\* ---------------------------------------------------------------- actions
\* the wrappers of the conversation log and what they send to the endpoint
UserMessage(content) == [role |-> "user", content |-> content]
IsUserMessage(elem) == "content" \in DOMAIN elem
to_input_messages(elem) ==
    IF IsUserMessage(elem) THEN <<elem>> ELSE elem.messages

RECURSIVE InputMessages(_)
InputMessages(log) ==
    IF log = <<>> THEN <<>>
    ELSE to_input_messages(Head(log)) \o InputMessages(Tail(log))

FailedInit == "Failed to initialize database"
FailedSave == "Failed to save chat interaction"
FailedRetrieve == "Failed to retrieve chat history"

\* the rows get_chat_history can return: newest first, or [] when it failed
RECURSIVE Reverse(_)
Reverse(seq) ==
    IF seq = <<>> THEN <<>> ELSE Append(Reverse(Tail(seq)), Head(seq))

get_chat_history(ok) == IF ok THEN Reverse(db_chat_history) ELSE <<>>

\* what the sidebar's call of get_chat_history leaves in the log
SidebarLogged(ok) ==
    IF db_initialized /\ ~ok THEN logged \cup {FailedRetrieve} ELSE logged

Init ==
    /\ chunks = <<>>
    /\ received = <<>>
    /\ results = <<>>
    /\ Idle
    /\ history = <<>>
    /\ db_initialized \in BOOLEAN
    /\ viewing_history = <<>>
    /\ db_chat_history = <<>>
    /\ logged = IF db_initialized THEN {} ELSE {FailedInit}
    /\ save_calls = 0
    /\ NoDash

\* mutant: the chat input is offered while a stored conversation is viewed
ChatInputShownAlways == TRUE

\* the chat input is shown only when no stored conversation is viewed
ChatInputShown == viewing_history = <<>>

\* no script run is under way: the page waits for an interaction
Waiting == pc \in {"idle", "error"}

\* the chat input handler up to the adapter's call of query_endpoint_stream
Submit(prompt, tt) ==
    /\ Waiting
    /\ ChatInputShown
    /\ \E ok \in BOOLEAN : logged' = SidebarLogged(ok)
    /\ task_type' = tt
    /\ history' = Append(history, UserMessage(prompt))
    /\ input_messages' = InputMessages(history')
    /\ adapter' = query_endpoint_and_render(tt)
    /\ response_area' = Thinking
    /\ accumulated_content' = ""
    /\ request_id' = None
    /\ message_buffers' = <<>>
    /\ all_messages' = <<>>
    /\ consumed' = <<>>
    /\ raised' = FALSE
    /\ sync_calls' = 0
    /\ sync_args' = <<>>
    /\ sync_returned' = <<>>
    /\ response' = <<>>
    /\ reduce_lens' = {}
    /\ save_calls' = 0
    /\ pc' = "stream"
    /\ UNCHANGED <<rvars, dvars, db_initialized, viewing_history, db_chat_history>>

ChatCompletionsChunk(chunk) ==
    /\ pc = "stream"
    /\ adapter = "query_chat_completions_endpoint_and_render"
    /\ Len(consumed) < MaxStream
    /\ consumed' = Append(consumed, chunk)
    /\ IF CompletionsRaises(chunk)
       THEN /\ EnterFallback
            /\ UNCHANGED <<accumulated_content, request_id>>
       ELSE /\ accumulated_content' = accumulate_content(accumulated_content, chunk)
            /\ response_area' =
                 IF chunk.choices = "delta" /\ Truthy(chunk.content)
                 THEN Markdown(accumulate_content(accumulated_content, chunk))
                 ELSE response_area
            /\ request_id' = update_request_id(request_id, chunk.databricks_output)
            /\ UNCHANGED <<pc, raised, sync_calls, sync_args>>
    /\ UNCHANGED <<rvars, dvars, svars, task_type, adapter, input_messages, message_buffers,
                   all_messages, sync_returned, response, reduce_lens>>

\* one iteration of the loop of query_chat_agent_endpoint_and_render
ChatAgentChunk(raw_chunk) ==
    /\ pc = "stream"
    /\ adapter = "query_chat_agent_endpoint_and_render"
    /\ Len(consumed) < MaxStream
    /\ consumed' = Append(consumed, raw_chunk)
    /\ IF ~raw_chunk.valid
       THEN /\ EnterFallback
            /\ UNCHANGED <<request_id, message_buffers, reduce_lens>>
       ELSE LET message_id == raw_chunk.delta.id
                appended == AppendChunk(message_buffers, message_id,
                                        Chunk(raw_chunk.delta))
                i == BufferIndex(appended, message_id)
            IN  /\ request_id' = update_request_id(request_id,
                                                   raw_chunk.databricks_output)
                /\ reduce_lens' = reduce_lens \cup {Len(appended[i].chunks)}
                /\ IF ReduceRaises(appended[i].chunks)
                   THEN /\ EnterFallback
                        /\ message_buffers' = appended
                   ELSE LET run == ReduceRun(appended[i].chunks)
                            partial_message == run.msg
                            message_content == model_dump_compat(partial_message)
                        IN  /\ message_buffers' =
                                 [appended EXCEPT
                                    ![i].chunks = run.chunks,
                                    ![i].render_area = Container(<<message_content>>)]
                            /\ response_area' = Empty
                            /\ UNCHANGED <<pc, raised, sync_calls, sync_args>>
    /\ UNCHANGED <<rvars, dvars, svars, task_type, adapter, input_messages,
                   accumulated_content, all_messages, sync_returned, response>>

\* mutant: only the messages the event added are drawn
render_all_messages_delta_only(area, messages, added) ==
    IF added # <<>> THEN Container(added) ELSE area

\* if all_messages: with response_area.container(): render every message.
\* area is what the placeholder showed, added what the event contributed
render_all_messages(area, messages, added) ==
    IF messages # <<>> THEN Container(messages) ELSE area

\* one iteration of the loop of query_responses_endpoint_and_render
ResponsesStreamEvent(raw_event) ==
    /\ pc = "stream"
    /\ adapter = "query_responses_endpoint_and_render"
    /\ Len(consumed) < MaxStream
    /\ consumed' = Append(consumed, raw_event)
    /\ request_id' = update_request_id(request_id, raw_event.databricks_output)
    /\ IF raw_event.has_type /\ ~raw_event.valid
       THEN /\ EnterFallback
            /\ UNCHANGED all_messages
       ELSE LET added == EventMessages(raw_event)
                messages == all_messages \o added
            IN  /\ all_messages' = messages
                /\ response_area' =
                     render_all_messages(response_area, messages, added)
                /\ UNCHANGED <<pc, raised, sync_calls, sync_args>>
    /\ UNCHANGED <<rvars, dvars, svars, task_type, adapter, input_messages,
                   accumulated_content, message_buffers, sync_returned,
                   response, reduce_lens>>

\* mutant: what query_endpoint_stream raises escapes the adapter
StreamRaisesEscapes ==
    /\ pc = "stream"
    /\ raised' = TRUE
    /\ pc' = "error"
    /\ UNCHANGED <<rvars, dvars, svars, task_type, adapter, input_messages, consumed,
                   accumulated_content, request_id, message_buffers,
                   all_messages, response_area, sync_calls, sync_args,
                   sync_returned, response, reduce_lens>>

\* query_endpoint_stream raises instead of yielding or stopping
StreamRaises ==
    /\ pc = "stream"
    /\ EnterFallback
    /\ UNCHANGED <<rvars, dvars, svars, task_type, adapter, input_messages, consumed,
                   accumulated_content, request_id, message_buffers,
                   all_messages, sync_returned, response, reduce_lens>>

\* the stream is exhausted: the statements after the loop
StreamEndsChatCompletions ==
    /\ pc = "stream"
    /\ adapter = "query_chat_completions_endpoint_and_render"
    /\ response' = <<AssistantResponse(
                        <<[role |-> "assistant", content |-> accumulated_content]>>,
                        request_id)>>
    /\ pc' = "done"
    /\ UNCHANGED <<rvars, dvars, svars, task_type, adapter, input_messages, consumed,
                   accumulated_content, request_id, message_buffers,
                   all_messages, response_area, raised, sync_calls, sync_args,
                   sync_returned, reduce_lens>>

StreamEndsChatAgent ==
    /\ pc = "stream"
    /\ adapter = "query_chat_agent_endpoint_and_render"
    /\ reduce_lens' = reduce_lens \cup
                        {Len(message_buffers[i].chunks) : i \in 1..Len(message_buffers)}
    /\ IF \E i \in 1..Len(message_buffers) : ReduceRaises(message_buffers[i].chunks)
       THEN /\ EnterFallback
            /\ UNCHANGED <<message_buffers, response>>
       ELSE LET runs == [i \in 1..Len(message_buffers) |->
                            ReduceRun(message_buffers[i].chunks)]
                messages == [i \in 1..Len(message_buffers) |-> runs[i].msg]
            IN  /\ message_buffers' =
                     [i \in 1..Len(message_buffers) |->
                        [message_buffers[i] EXCEPT !.chunks = runs[i].chunks]]
                /\ response' = <<AssistantResponse(
                                    [i \in 1..Len(messages) |->
                                        model_dump_compat(messages[i])],
                                    request_id)>>
                /\ pc' = "done"
                /\ UNCHANGED <<response_area, raised, sync_calls, sync_args>>
    /\ UNCHANGED <<rvars, dvars, svars, task_type, adapter, input_messages, consumed,
                   accumulated_content, request_id, all_messages,
                   sync_returned>>

StreamEndsResponses ==
    /\ pc = "stream"
    /\ adapter = "query_responses_endpoint_and_render"
    /\ response' = <<AssistantResponse(all_messages, request_id)>>
    /\ pc' = "done"
    /\ UNCHANGED <<rvars, dvars, svars, task_type, adapter, input_messages, consumed,
                   accumulated_content, request_id, message_buffers,
                   all_messages, response_area, raised, sync_calls, sync_args,
                   sync_returned, reduce_lens>>

\* query_endpoint returns: the rest of the except clause
QueryEndpointReturns(sync_result) ==
    /\ pc = "fallback"
    /\ sync_returned' = <<sync_result>>
    /\ request_id' = sync_result.request_id
    /\ response_area' = Container(sync_result.messages)
    /\ response' = <<fallback_response(sync_result, request_id)>>
    /\ pc' = "done"
    /\ UNCHANGED <<rvars, dvars, svars, task_type, adapter, input_messages, consumed,
                   accumulated_content, message_buffers, all_messages, raised,
                   sync_calls, sync_args, reduce_lens>>
\* mutant: a failed fallback is swallowed and an empty response returned
QueryEndpointRaisesSwallowed ==
    /\ pc = "fallback"
    /\ response' = <<AssistantResponse(<<>>, None)>>
    /\ pc' = "done"
    /\ UNCHANGED <<rvars, dvars, svars, task_type, adapter, input_messages, consumed,
                   accumulated_content, request_id, message_buffers,
                   all_messages, response_area, raised, sync_calls, sync_args,
                   sync_returned, reduce_lens>>

\* mutant: a failed fallback is attempted once more
QueryEndpointRaisesRetries ==
    /\ pc = "fallback"
    /\ IF sync_calls < 2
       THEN sync_calls' = sync_calls + 1 /\ pc' = "fallback"
       ELSE sync_calls' = sync_calls /\ pc' = "error"
    /\ UNCHANGED <<rvars, dvars, svars, task_type, adapter, input_messages, consumed,
                   accumulated_content, request_id, message_buffers,
                   all_messages, response_area, raised, sync_args,
                   sync_returned, response, reduce_lens>>

\* query_endpoint raises: nothing in the adapter catches it
QueryEndpointRaises ==
    /\ pc = "fallback"
    /\ pc' = "error"
    /\ UNCHANGED <<rvars, dvars, svars, task_type, adapter, input_messages, consumed,
                   accumulated_content, request_id, message_buffers,
                   all_messages, response_area, raised, sync_calls, sync_args,
                   sync_returned, response, reduce_lens>>

\* mutant: the interaction is saved whether or not the database came up
HandlerAppendsResponseAlwaysSaves ==
    /\ pc = "done"
    /\ history' = Append(history, response[1])
    /\ pc' = "save"
    /\ UNCHANGED <<rvars, dvars, task_type, adapter, input_messages, consumed,
                   accumulated_content, request_id, message_buffers,
                   all_messages, response_area, raised, sync_calls, sync_args,
                   sync_returned, response, reduce_lens, db_initialized,
                   viewing_history, db_chat_history, logged, save_calls>>

\* the chat input handler after the adapter returned
HandlerAppendsResponse ==
    /\ pc = "done"
    /\ history' = Append(history, response[1])
    /\ pc' = IF db_initialized THEN "save" ELSE "idle"
    /\ UNCHANGED <<rvars, dvars, task_type, adapter, input_messages, consumed,
                   accumulated_content, request_id, message_buffers,
                   all_messages, response_area, raised, sync_calls, sync_args,
                   sync_returned, response, reduce_lens, db_initialized,
                   viewing_history, db_chat_history, logged, save_calls>>

\* the text stored for a response: the truthy contents joined by newlines
RECURSIVE JoinLines(_)
JoinLines(parts) ==
    IF parts = <<>> THEN ""
    ELSE IF Len(parts) = 1 THEN parts[1]
    ELSE parts[1] \o "\n" \o JoinLines(Tail(parts))

HasContent(msg) == "content" \in DOMAIN msg /\ Truthy(msg.content)

response_text(assistant_response) ==
    LET with_content == SelectSeq(assistant_response, HasContent)
    IN  JoinLines([i \in 1..Len(with_content) |-> with_content[i].content])

Row(user_message, assistant_response, req_id) ==
    [user_msg |-> user_message,
     assistant_msg |-> response_text(assistant_response),
     req_id |-> req_id]

LastPrompt == history[Len(history) - 1].content

SaveOutcomes == {"saved", "connection_failed", "insert_failed", "commit_failed"}

\* mutant: a failure of the database reaches the caller
SaveChatInteractionRaises(outcome) ==
    /\ pc = "save"
    /\ save_calls' = save_calls + 1
    /\ IF outcome = "saved"
       THEN /\ db_chat_history' =
                  Append(db_chat_history,
                         Row(LastPrompt, response[1].messages, response[1].request_id))
            /\ pc' = "idle"
       ELSE /\ pc' = "error"
            /\ UNCHANGED db_chat_history
    /\ UNCHANGED <<rvars, dvars, task_type, adapter, input_messages, consumed,
                   accumulated_content, request_id, message_buffers,
                   all_messages, response_area, raised, sync_calls, sync_args,
                   sync_returned, response, reduce_lens, history,
                   db_initialized, viewing_history, logged>>

\* save_chat_interaction, called by the handler when db_initialized
SaveChatInteraction(outcome) ==
    /\ pc = "save"
    /\ save_calls' = save_calls + 1
    /\ IF outcome = "saved"
       THEN /\ db_chat_history' =
                  Append(db_chat_history,
                         Row(LastPrompt, response[1].messages, response[1].request_id))
            /\ UNCHANGED logged
       ELSE /\ logged' = logged \cup {FailedSave}
            /\ UNCHANGED db_chat_history
    /\ pc' = "idle"
    /\ UNCHANGED <<rvars, dvars, task_type, adapter, input_messages, consumed,
                   accumulated_content, request_id, message_buffers,
                   all_messages, response_area, raised, sync_calls, sync_args,
                   sync_returned, response, reduce_lens, history,
                   db_initialized, viewing_history>>

\* the sidebar, drawn only when db_initialized
\* "Refresh": the script runs again
Refresh(ok) ==
    /\ Waiting
    /\ db_initialized
    /\ logged' = SidebarLogged(ok)
    /\ UNCHANGED <<rvars, dvars, avars, history, db_initialized, viewing_history,
                   db_chat_history, save_calls>>

\* mutant: "New Chat" starts from an empty conversation log
NewChatClearsHistory(ok) ==
    /\ Waiting
    /\ db_initialized
    /\ viewing_history' = <<>>
    /\ history' = <<>>
    /\ logged' = SidebarLogged(ok)
    /\ UNCHANGED <<rvars, dvars, avars, db_initialized, db_chat_history, save_calls>>

\* "New Chat": leaves the view of a stored conversation
NewChat(ok) ==
    /\ Waiting
    /\ db_initialized
    /\ viewing_history' = <<>>
    /\ logged' = SidebarLogged(ok)
    /\ UNCHANGED <<rvars, dvars, avars, history, db_initialized, db_chat_history,
                   save_calls>>

\* a button of the history list: view that stored conversation
ViewHistory(idx) ==
    /\ Waiting
    /\ db_initialized
    /\ idx \in 1..Len(get_chat_history(TRUE))
    /\ viewing_history' = <<get_chat_history(TRUE)[idx]>>
    /\ \E ok \in BOOLEAN : logged' = SidebarLogged(ok)
    /\ UNCHANGED <<rvars, dvars, avars, history, db_initialized, db_chat_history,
                   save_calls>>

Next ==
    \/ \E prompt \in Prompts, tt \in TaskTypes :
          history = <<>> /\ Submit(prompt, tt)
    \/ \E chunk \in CompletionsChunks : ChatCompletionsChunk(chunk)
    \/ \E raw_chunk \in AgentRawChunks : ChatAgentChunk(raw_chunk)
    \/ \E raw_event \in ResponsesEvents : ResponsesStreamEvent(raw_event)
    \/ StreamRaises
    \/ StreamEndsChatCompletions
    \/ StreamEndsChatAgent
    \/ StreamEndsResponses
    \/ \E sync_result \in SyncResults : QueryEndpointReturns(sync_result)
    \/ QueryEndpointRaises

\* the first exchange of a session that runs without database, from the
\* submission to the adapter's return
InitTurn == Init /\ ~db_initialized

Spec == InitTurn /\ [][Next]_vars

\* the same exchange when the script thread keeps running: the stream yields
\* its next fragment, raises or ends, and query_endpoint returns or raises
SpecFair == InitTurn /\ [][Next]_vars /\ WF_vars(Next)

\* a session of several turns with the sidebar, on short streams
Turns == Len(SelectSeq(history, IsUserMessage))

\* the inputs of a session: the task types of the three adapters, a few
\* fragments for each and one answer of query_endpoint
SessionTaskTypes == {"agent/v1/responses", "agent/v2/chat", "chat/completions"}
SessionCompletionsChunks ==
    {CompletionsChunk("delta", "Hel", NoOutput),
     CompletionsChunk("delta", "lo", "r1")}
SessionAgentRawChunks ==
    {AgentRawChunk(TRUE, Delta("A", "assistant", "Hel", NoList, None), "r2")}
SessionResponsesEvents ==
    {ResponsesEvent(TRUE, TRUE,
                    <<MessageItem(<<ContentPart("output_text", "Hi")>>)>>,
                    NoOutput),
     ResponsesEvent(TRUE, TRUE, <<FunctionCallItem("c1", "f", "{}")>>, "r1")}
SessionSyncResults ==
    {SyncResult(<<[role |-> "assistant", content |-> "sync"]>>, "r9")}

NextSession ==
    \/ \E prompt \in Prompts, tt \in SessionTaskTypes :
          Turns < MaxTurns /\ Submit(prompt, tt)
    \/ \E chunk \in SessionCompletionsChunks :
          Len(consumed) < MaxSessionStream /\ ChatCompletionsChunk(chunk)
    \/ \E raw_chunk \in SessionAgentRawChunks :
          Len(consumed) < MaxSessionStream /\ ChatAgentChunk(raw_chunk)
    \/ \E raw_event \in SessionResponsesEvents :
          Len(consumed) < MaxSessionStream /\ ResponsesStreamEvent(raw_event)
    \/ StreamRaises
    \/ StreamEndsChatCompletions
    \/ StreamEndsChatAgent
    \/ StreamEndsResponses
    \/ \E sync_result \in SessionSyncResults : QueryEndpointReturns(sync_result)
    \/ QueryEndpointRaises
    \/ HandlerAppendsResponse
    \/ \E outcome \in SaveOutcomes : SaveChatInteraction(outcome)
    \/ \E ok \in BOOLEAN : Refresh(ok)
    \/ \E ok \in BOOLEAN : NewChat(ok)
    \/ \E idx \in 1..MaxTurns : ViewHistory(idx)

SpecSession == Init /\ [][NextSession]_vars

\* ------------------------------------------------ vocabulary of the claims
IsResponses == adapter = "query_responses_endpoint_and_render"
IsChatAgent == adapter = "query_chat_agent_endpoint_and_render"
IsChatCompletions == adapter = "query_chat_completions_endpoint_and_render"

\* the adapter returned what it streamed
StreamedDone == pc = "done" /\ ~raised
\* the adapter returned what the fallback gave
FallbackDone == pc = "done" /\ raised

RECURSIVE ContentInOrder(_)
\* the content of the fragments, left to right, None and "" adding nothing
ContentInOrder(cs) ==
    IF cs = <<>> THEN ""
    ELSE (IF Head(cs).delta.content \in {None, ""} THEN ""
          ELSE Head(cs).delta.content) \o ContentInOrder(Tail(cs))

RECURSIVE ToolCallDeltasIn(_)
\* every tool-call delta of the fragments, in arrival order
ToolCallDeltasIn(cs) ==
    IF cs = <<>> THEN <<>>
    ELSE (IF Head(cs).delta.tool_calls = NoList THEN <<>>
          ELSE Head(cs).delta.tool_calls[1]) \o ToolCallDeltasIn(Tail(cs))

DeltasOfCall(cs, c) == SelectSeq(ToolCallDeltasIn(cs), LAMBDA tc : tc.id = c)

RECURSIVE ArgumentsInOrder(_)
ArgumentsInOrder(tcs) ==
    IF tcs = <<>> THEN ""
    ELSE Head(tcs).function.arguments \o ArgumentsInOrder(Tail(tcs))

\* the name of the last delta that supplies one, "" when none does
LastSuppliedName(tcs) ==
    LET named == {i \in 1..Len(tcs) : tcs[i].function.name # ""}
    IN  IF named = {} THEN ""
        ELSE tcs[CHOOSE i \in named : \A j \in named : j <= i].function.name

ToolCallsOf(msg) == IF msg.tool_calls = NoList THEN <<>> ELSE msg.tool_calls[1]
EntriesOf(msg, c) == SelectSeq(ToolCallsOf(msg), LAMBDA e : e.id = c)

\* C3: every message the reducer returns has as content the concatenation, in
\* arrival order, of the content of all fragments it was given, fragments
\* with empty or absent content contributing nothing.
C3_ContentIsConcatenation ==
    \A k \in 1..Len(results) : results[k].content = ContentInOrder(received)

\* a reduction of "Hel", an empty or absent content, "lo"
C3_Witness ==
    /\ Len(results) >= 1
    /\ Len(received) = 3
    /\ received[1].delta.content = "Hel"
    /\ received[2].delta.content \in {None, ""}
    /\ received[3].delta.content = "lo"
    /\ results[1].content = "Hello"

\* C4: for every tool-call id of the fragments, the reduced message has one
\* tool call of that id whose arguments are the concatenation, in arrival
\* order, of the arguments of every delta carrying the id.
C4_ArgumentsInArrivalOrder ==
    \A k \in 1..Len(results) : \A c \in CallIds :
        DeltasOfCall(received, c) # <<>> =>
            /\ Len(EntriesOf(results[k], c)) = 1
            /\ EntriesOf(results[k], c)[1].function.arguments =
                   ArgumentsInOrder(DeltasOfCall(received, c))

\* two identical consecutive argument fragments, then a different one
C4_Witness ==
    /\ Len(results) >= 1
    /\ Len(DeltasOfCall(received, "c1")) = 3
    /\ EntriesOf(results[1], "c1")[1].function.arguments = "{{}"

\* C5: the reduced tool call carries the name of the last delta of its id
\* that supplied a non-empty one: a later delta with an empty name leaves an
\* established name as it is.
C5_NameNeverBlanked ==
    \A k \in 1..Len(results) : \A c \in CallIds :
        DeltasOfCall(received, c) # <<>> =>
            /\ Len(EntriesOf(results[k], c)) = 1
            /\ EntriesOf(results[k], c)[1].function.name =
                   LastSuppliedName(DeltasOfCall(received, c))

\* a name on the first delta of c1, an empty name on a later one
C5_Witness ==
    /\ Len(results) >= 1
    /\ LET tcs == DeltasOfCall(received, "c1")
       IN  /\ Len(tcs) >= 2
           /\ tcs[1].function.name = "f"
           /\ tcs[Len(tcs)].function.name = ""
    /\ EntriesOf(results[1], "c1")[1].function.name = "f"

\* C6: a call of the reducer leaves the fragments it was given as they were
\* received, the first one included, and every call on them returns the same
\* message.
C6_ReducerIsPure ==
    /\ chunks = received
    /\ \A j, k \in 1..Len(results) : results[j] = results[k]

\* two calls on fragments whose reduction differs from the first fragment in
\* content and in tool calls
C6_Witness ==
    /\ Len(results) = 2
    /\ results[2].content # received[1].delta.content
    /\ results[2].tool_calls # received[1].delta.tool_calls
    /\ results[2].tool_call_id # received[1].delta.tool_call_id

\* the streamed state the fallback has to leave behind
PartialStreamed ==
    \/ accumulated_content # ""
    \/ message_buffers # <<>>
    \/ all_messages # <<>>

StreamedRequestId ==
    \E i \in 1..Len(consumed) : consumed[i].databricks_output \in RequestIds

\* C1: when the streaming try block raised and the adapter returned, the
\* returned AssistantResponse holds exactly the messages and the request id
\* that query_endpoint returned for the turn's input messages.
C1_FallbackFidelity ==
    FallbackDone =>
        /\ sync_args = input_messages
        /\ sync_returned # <<>>
        /\ response = <<AssistantResponse(sync_returned[1].messages,
                                          sync_returned[1].request_id)>>

\* a stream that raised after text, buffers or messages and a request id had
\* been streamed, and a fallback that returned no request id
C1_Witness ==
    /\ FallbackDone
    /\ PartialStreamed
    /\ StreamedRequestId
    /\ sync_returned[1].request_id = None
    /\ response[1].request_id = None

\* C2: in every state of a turn query_endpoint has been called once when the
\* streaming try block raised and not at all otherwise.
C2_FallbackExactlyOnce ==
    /\ sync_calls = (IF raised THEN 1 ELSE 0)
    /\ StreamedDone => sync_returned = <<>>
    /\ pc = "fallback" => raised
    /\ pc = "error" => raised

\* a turn whose stream raised partway and whose fallback failed in turn
C2_Witness ==
    /\ pc = "error"
    /\ consumed # <<>>
    /\ sync_calls = 1

RECURSIVE FirstSeen(_)
\* the message ids of the deltas, each once, in order of first appearance
FirstSeen(deltas) ==
    IF deltas = <<>> THEN <<>>
    ELSE <<Head(deltas).id>>
         \o SelectSeq(FirstSeen(Tail(deltas)), LAMBDA m : m # Head(deltas).id)

ConsumedDeltas == [i \in 1..Len(consumed) |-> consumed[i].delta]

FragmentsOf(deltas, m) ==
    LET own == SelectSeq(deltas, LAMBDA d : d.id = m)
    IN  [i \in 1..Len(own) |-> Chunk(own[i])]

\* C7: the chat-agent adapter returns one message per distinct id of the
\* stream, in order of each id's first fragment, each the reduction of all
\* fragments of its id in arrival order.
C7_OneMessagePerIdFirstSeenOrder ==
    (StreamedDone /\ IsChatAgent) =>
        LET ids == FirstSeen(ConsumedDeltas)
        IN  response[1].messages =
                [k \in 1..Len(ids) |->
                    model_dump_compat(reduce_chat_agent_chunks(
                        FragmentsOf(ConsumedDeltas, ids[k])))]

\* fragments of A, B, A in that order
C7_Witness ==
    /\ StreamedDone /\ IsChatAgent
    /\ Len(consumed) >= 3
    /\ consumed[1].delta.id = "A"
    /\ consumed[2].delta.id = "B"
    /\ consumed[3].delta.id = "A"
    /\ Len(response[1].messages) = 2
    /\ response[1].messages[1].id = "A"
    /\ response[1].messages[2].id = "B"

\* the items of the events that carry the type discriminant, in event order
TypedItems ==
    LET typed == SelectSeq(consumed,
                           LAMBDA e : e.has_type /\ e.item # <<>>
                                      /\ e.item[1].type \in
                                           {"message", "function_call",
                                            "function_call_output"})
    IN  [i \in 1..Len(typed) |-> typed[i].item[1]]

NonEmptyTexts(item) ==
    SelectSeq(item.content, LAMBDA p : p.type = "output_text" /\ p.text # "")

ExpectedOfItem(item) ==
    CASE item.type = "message" ->
            [i \in 1..Len(NonEmptyTexts(item)) |->
                [role |-> "assistant", content |-> NonEmptyTexts(item)[i].text]]
      [] item.type = "function_call" ->
            <<[role |-> "assistant", content |-> "",
               tool_calls |-> <<[id |-> item.call_id, type |-> "function",
                                 function |-> [name |-> item.name,
                                               arguments |-> item.arguments]]>>]>>
      [] item.type = "function_call_output" ->
            <<[role |-> "tool", content |-> item.output,
               tool_call_id |-> item.call_id]>>

RECURSIVE ExpectedOfItems(_)
ExpectedOfItems(items) ==
    IF items = <<>> THEN <<>>
    ELSE ExpectedOfItem(Head(items)) \o ExpectedOfItems(Tail(items))

\* C8 as stated: the responses adapter returns exactly one message per item
\* of type message, function_call or function_call_output, in event order,
\* with role assistant, assistant and tool respectively.
C8_OneMessagePerItem ==
    (StreamedDone /\ IsResponses) =>
        LET msgs == response[1].messages
        IN  /\ Len(msgs) = Len(TypedItems)
            /\ \A i \in 1..Len(TypedItems) :
                  msgs[i].role = (IF TypedItems[i].type = "function_call_output"
                                  THEN "tool" ELSE "assistant")

\* C8 as amended: the responses adapter returns, in event order, one assistant
\* message per non-empty output_text part of each message item, one assistant
\* message with empty content and one tool call per function_call item and
\* one tool message referencing the call id per function_call_output item.
C8_OneMessagePerTextPart ==
    (StreamedDone /\ IsResponses) =>
        response[1].messages = ExpectedOfItems(TypedItems)

\* a message item of two text parts, a function call and its output
C8_Witness ==
    /\ StreamedDone /\ IsResponses
    /\ Len(TypedItems) = 3
    /\ TypedItems[1].type = "message" /\ Len(NonEmptyTexts(TypedItems[1])) = 2
    /\ TypedItems[2].type = "function_call"
    /\ TypedItems[3].type = "function_call_output"
    /\ Len(response[1].messages) = 4

\* C9: no list handed to the reducer by the chat-agent adapter is empty.
C9_ReducerNeverGetsEmptyList == 0 \notin reduce_lens

\* the reducer was called per fragment and at the end of a stream of two ids
C9_Witness ==
    /\ StreamedDone /\ IsChatAgent
    /\ Len(message_buffers) = 2
    /\ reduce_lens = {1, 2}

\* C10: the dispatcher hands every task type to exactly one adapter: the
\* responses and chat-agent task types to their adapters, any other value to
\* the chat-completions adapter.
C10_DispatchIsTotal ==
    pc # "idle" =>
        /\ adapter \in Adapters
        /\ task_type = "agent/v1/responses" <=> IsResponses
        /\ task_type = "agent/v2/chat" <=> IsChatAgent
        /\ task_type \notin {"agent/v1/responses", "agent/v2/chat"}
               <=> IsChatCompletions

\* an unrecognized task type served by the chat-completions adapter
C10_Witness ==
    /\ StreamedDone
    /\ task_type \notin {"agent/v1/responses", "agent/v2/chat",
                         "chat/completions"}
    /\ IsChatCompletions
    /\ response[1].messages[1].content = "Hello"

\* the step consumed one more fragment of the stream
ConsumesFragment == Len(consumed') = Len(consumed) + 1
Fragment == consumed'[Len(consumed')]

\* shapes the adapters step over: a chat-completions chunk without choices, a
\* responses event without the "type" key, a validated responses event whose
\* item is of no known type
UnrecognizedShape(f) ==
    \/ IsChatCompletions /\ f.choices \in {"absent", "empty"}
    \/ IsResponses /\ ~f.has_type
    \/ IsResponses /\ f.has_type /\ f.valid /\ f.item # <<>>
         /\ f.item[1].type \notin {"message", "function_call",
                                   "function_call_output"}

\* payloads the schema validation of the adapter rejects, and the
\* chat-completions chunk whose delta is null
FailsValidation(f) ==
    \/ IsChatCompletions /\ CompletionsRaises(f)
    \/ IsChatAgent /\ ~f.valid
    \/ IsResponses /\ f.has_type /\ ~f.valid

\* the fragment left text, buffers and messages alone and the loop goes on
FragmentIsNoOp ==
    /\ accumulated_content' = accumulated_content
    /\ message_buffers' = message_buffers
    /\ all_messages' = all_messages
    /\ pc' = "stream"
    /\ ~raised'
    /\ sync_calls' = sync_calls

\* C11 as stated: in every adapter a fragment of unrecognized shape or one
\* that fails schema validation is a no-op: the accumulated state is
\* unchanged, the stream is consumed further and no fallback is triggered.
C11_MalformedIsNoOp ==
    [][(ConsumesFragment /\ (UnrecognizedShape(Fragment) \/ FailsValidation(Fragment)))
          => FragmentIsNoOp]_vars

\* C11 as amended: a chat-completions chunk without choices, a responses
\* event without the type discriminant and a validated responses event with
\* an unknown item type are no-ops that leave text, buffers and messages
\* unchanged without triggering the fallback; a payload that fails schema
\* validation raises and triggers the one fallback.
C11_UnrecognizedIsNoOpInvalidFallsBack ==
    [][ConsumesFragment =>
          /\ UnrecognizedShape(Fragment) => FragmentIsNoOp
          /\ FailsValidation(Fragment) =>
                /\ raised' /\ pc' = "fallback" /\ sync_calls' = sync_calls + 1
                /\ message_buffers' = message_buffers
                /\ all_messages' = all_messages]_vars

\* a responses event without "type" that carries a message item was stepped
\* over after a message had been accumulated
C11_Witness ==
    /\ IsResponses /\ pc = "stream"
    /\ Len(consumed) = 2
    /\ ~consumed[2].has_type /\ consumed[2].item # <<>>
    /\ Len(all_messages) = 1

\* C12: when the stream raised and query_endpoint raised too the adapter
\* returns no AssistantResponse and has called query_endpoint once; a
\* response after a raise exists only when query_endpoint returned.
C12_FallbackFailurePropagates ==
    /\ pc = "error" => /\ raised
                       /\ sync_calls = 1
                       /\ sync_returned = <<>>
                       /\ response = <<>>
    /\ (raised /\ response # <<>>) => sync_returned # <<>>

\* the fallback failed after part of the stream had been consumed
C12_Witness ==
    /\ pc = "error"
    /\ PartialStreamed
    /\ response = <<>>

\* what the assistant chat message shows: the placeholder, then the render
\* targets of the ids in creation order
Displayed ==
    <<response_area>>
    \o [i \in 1..Len(message_buffers) |-> message_buffers[i].render_area]

\* C20: after the chat-agent adapter fell back the display shows exactly the
\* fallback's message list and no partially streamed message.
C20_FallbackDisplayOnly ==
    (FallbackDone /\ IsChatAgent) =>
        /\ response_area = Container(sync_returned[1].messages)
        /\ \A i \in 2..Len(Displayed) : Displayed[i] = Empty

\* ---------------------------------------------------- claims of the session
\* C13: whatever fails in save_chat_interaction is caught and logged: the
\* call returns to the handler, and the conversation log, the response and
\* what is displayed are what they are when the save succeeded.
C13_SaveNeverRaises ==
    [][pc = "save" =>
          /\ pc' = "idle"
          /\ save_calls' = save_calls + 1
          /\ history' = history
          /\ response' = response
          /\ response_area' = response_area
          /\ db_chat_history' = db_chat_history => FailedSave \in logged']_vars

\* a save failed and the turn ended with the response in the log
C13_Witness ==
    /\ pc = "idle"
    /\ save_calls = 1
    /\ FailedSave \in logged
    /\ db_chat_history = <<>>
    /\ Len(history) = 2
    /\ history[2] = response[1]

\* C16: the conversation log only grows: every step keeps the entries it
\* had, in place, across submissions, refreshes, history views and new-chat.
C16_LogAppendOnly ==
    [][/\ Len(history') >= Len(history)
       /\ SubSeq(history', 1, Len(history)) = history]_vars

\* a stored conversation is viewed after two turns of the live conversation
C16_Witness ==
    /\ Len(history) = 4
    /\ viewing_history # <<>>

\* C17: while a stored conversation is viewed no submission is accepted, no
\* endpoint call is made and neither the stored rows nor the live log change;
\* a turn is under way only when no stored conversation is viewed.
C17_ViewIsReadOnly ==
    [][viewing_history # <<>> =>
          /\ history' = history
          /\ db_chat_history' = db_chat_history
          /\ pc' = pc
          /\ consumed' = consumed
          /\ sync_calls' = sync_calls
          /\ input_messages' = input_messages
          /\ viewing_history' # <<>> =>
                \E i \in 1..Len(db_chat_history) :
                    viewing_history'[1] = db_chat_history[i]]_vars

\* a stored conversation is viewed while the live log holds a turn
C17_Witness ==
    /\ viewing_history # <<>>
    /\ Len(history) = 2
    /\ viewing_history[1].user_msg = history[1].content

Responses == Len(history) - Turns

\* C18: in a turn the user message is appended first, then the adapter runs,
\* then its response is appended, then the interaction is saved: at most once,
\* only with an initialised database and never for a turn whose response was
\* not appended.
C18_TurnOrder ==
    /\ pc \in {"stream", "fallback", "done", "error"} =>
          /\ history # <<>>
          /\ IsUserMessage(history[Len(history)])
          /\ save_calls = 0
    /\ pc \in {"stream", "fallback", "error"} => response = <<>>
    /\ pc = "save" =>
          /\ db_initialized
          /\ save_calls = 0
          /\ Len(history) >= 2
          /\ history[Len(history)] = response[1]
          /\ IsUserMessage(history[Len(history) - 1])
    /\ save_calls <= 1
    /\ save_calls = 1 =>
          /\ db_initialized
          /\ pc = "idle"
          /\ history[Len(history)] = response[1]
    /\ Len(db_chat_history) <= Responses
    /\ ~db_initialized => db_chat_history = <<>>

\* both turns of a session were saved
C18_Witness ==
    /\ save_calls = 1
    /\ Len(db_chat_history) = 2
    /\ Len(history) = 4

\* ----------------------------------------------------------------- app_dash
max_retries == 3

SuggestionTexts == {"What can you do?"}
TypedTexts == {"What can you do?"}

\* what query_endpoint answers in app_dash
DashSyncResults ==
    {SyncResult(<<[role |-> "assistant", content |-> "Hel"],
                  [role |-> "assistant", content |-> "lo"]>>, "r1")}

\* the children of "chat-messages"
UserDiv(text) == [kind |-> "user", text |-> text, index |-> 0]
ThinkingIndicator == [kind |-> "thinking", text |-> "Thinking...", index |-> 0]
BotResponse(text, index) ==
    [kind |-> "bot", text |-> text, index |-> index,
     up_class |-> "thumbs-up-button", down_class |-> "thumbs-down-button"]
ErrorResponse(error_msg) ==
    [kind |-> "error",
     text |-> "Sorry, I encountered an error: " \o error_msg,
     index |-> 0]

ChatItem(first_query, is_active) == [text |-> first_query, active |-> is_active]

SessionEntry(current_session, user_input, updated_messages) ==
    [session_id |-> current_session,
     queries |-> <<user_input>>,
     messages |-> updated_messages]

\* what get_model_response is called with, and where it stands
Call(user_input, current_messages, chat_history, session_data) ==
    [message |-> user_input,
     current_messages |-> current_messages,
     chat_history |-> chat_history,
     session_data |-> session_data,
     phase |-> "query",
     response_text |-> "",
     failure |-> None,
     attempt |-> 0,
     sleeps |-> 0,
     telemetry |-> "none"]

RemoveAt(seq, i) == SubSeq(seq, 1, i - 1) \o SubSeq(seq, i + 1, Len(seq))

\* init_zerobus at import
InitDash ==
    /\ chunks = <<>>
    /\ received = <<>>
    /\ results = <<>>
    /\ Idle
    /\ NoSession
    /\ FreshPage
    /\ stream \in {None, "open"}
    /\ stream_initialized = (stream = "open")
    /\ senders = <<>>

\* handle_all_inputs with the text of the button or of the input, and the
\* call of get_model_response the change of "chat-trigger" sets off
handle_all_inputs(user_input) ==
    IF user_input = ""
    THEN UNCHANGED vars
    ELSE LET updated_messages ==
                 chat_messages \o <<UserDiv(user_input), ThinkingIndicator>>
             current_session ==
                 IF session_store = <<>> THEN Len(chat_history_store)
                 ELSE session_store[1]
             chat_history ==
                 IF current_session < Len(chat_history_store)
                 THEN [chat_history_store EXCEPT
                          ![current_session + 1] =
                              [@ EXCEPT !.messages = updated_messages,
                                        !.queries = Append(@, user_input)]]
                 ELSE <<SessionEntry(current_session, user_input, updated_messages)>>
                      \o chat_history_store
             updated_chat_list ==
                 [i \in 1..Len(chat_history) |->
                     ChatItem(chat_history[i].queries[1], i - 1 = current_session)]
         IN  /\ chat_messages' = updated_messages
             /\ chat_input_value' = ""
             /\ welcome_class' = "welcome-container hidden"
             /\ chat_trigger' = [trigger |-> TRUE, message |-> user_input]
             /\ query_running_store' = TRUE
             /\ chat_list' = updated_chat_list
             /\ chat_history_store' = chat_history
             /\ session_store' = <<current_session>>
             /\ toggle_pending' = <<TRUE>>
             /\ calls' = Append(calls, Call(user_input, updated_messages,
                                            chat_history, <<current_session>>))
             /\ UNCHANGED <<rvars, avars, svars, senders, feedback, inputs_disabled, completed,
                            stream, stream_initialized>>

\* the user types a text, or none, and uses the send button or Enter
SendInput(input_value) ==
    /\ ~inputs_disabled
    /\ handle_all_inputs(input_value)

\* a suggestion button of the welcome container
ClickSuggestion(text) ==
    /\ welcome_class = "welcome-container visible"
    /\ handle_all_inputs(text)

\* the text of the answer: the truthy contents of the messages, concatenated
DashResponseText(messages) ==
    LET with_content == SelectSeq(messages, HasContent)
    IN  Join([i \in 1..Len(with_content) |-> with_content[i].content])

\* get_model_response: query_endpoint returned
GetModelResponseQueried(i, sync_result) ==
    /\ i \in 1..Len(calls)
    /\ calls[i].phase = "query"
    /\ calls' = [calls EXCEPT ![i] =
                    [@ EXCEPT !.phase = "telemetry",
                              !.response_text = DashResponseText(sync_result.messages)]]
    /\ UNCHANGED <<rvars, avars, svars, senders, feedback, chat_messages, chat_input_value,
                   welcome_class, chat_list, chat_trigger, chat_history_store,
                   query_running_store, session_store, inputs_disabled,
                   toggle_pending, completed, stream, stream_initialized>>

\* get_model_response: query_endpoint raised
GetModelResponseQueryRaises(i) ==
    /\ i \in 1..Len(calls)
    /\ calls[i].phase = "query"
    /\ calls' = [calls EXCEPT ![i] =
                    [@ EXCEPT !.phase = "respond", !.failure = "endpoint"]]
    /\ UNCHANGED <<rvars, avars, svars, senders, feedback, chat_messages, chat_input_value,
                   welcome_class, chat_list, chat_trigger, chat_history_store,
                   query_running_store, session_store, inputs_disabled,
                   toggle_pending, completed, stream, stream_initialized>>

\* mutant: an error while the record is built reaches the outer handler
TelemetryRecordRaisesEscapes(i) ==
    /\ i \in 1..Len(calls)
    /\ calls[i].phase = "telemetry"
    /\ calls[i].attempt = 0
    /\ calls' = [calls EXCEPT ![i] =
                    [@ EXCEPT !.phase = "respond", !.telemetry = "raised",
                              !.failure = "telemetry"]]
    /\ UNCHANGED <<rvars, avars, svars, senders, feedback, chat_messages, chat_input_value,
                   welcome_class, chat_list, chat_trigger, chat_history_store,
                   query_running_store, session_store, inputs_disabled,
                   toggle_pending, completed, stream, stream_initialized>>

\* get_model_response: building the record raised, the inner handler logs it
TelemetryRecordRaises(i) ==
    /\ i \in 1..Len(calls)
    /\ calls[i].phase = "telemetry"
    /\ calls[i].attempt = 0
    /\ calls' = [calls EXCEPT ![i] =
                    [@ EXCEPT !.phase = "respond", !.telemetry = "raised"]]
    /\ UNCHANGED <<rvars, avars, svars, senders, feedback, chat_messages, chat_input_value,
                   welcome_class, chat_list, chat_trigger, chat_history_store,
                   query_running_store, session_store, inputs_disabled,
                   toggle_pending, completed, stream, stream_initialized>>

\* the wait after a failed attempt: 1 s, 2 s, none after the last attempt
RECURSIVE Pow2(_)
Pow2(n) == IF n = 0 THEN 1 ELSE 2 * Pow2(n - 1)

Backoff(attempt) == IF attempt < max_retries - 1 THEN Pow2(attempt) ELSE 0

\* how one pass of the loop can go: init_zerobus fails on a missing
\* stream; the record is acknowledged; ingest raises for a closed stream and
\* the forced init_zerobus succeeds or fails; ingest raises otherwise
AttemptOutcomes ==
    {"init_failed", "acked", "closed_reinit_ok", "closed_reinit_failed",
     "failed"}

\* where the call stands after an attempt that did not send the record
AfterFailedAttempt(call, wait) ==
    [call EXCEPT !.attempt = @ + 1,
                 !.sleeps = IF wait > 0 THEN @ + 1 ELSE @,
                 !.phase = IF call.attempt + 1 < max_retries THEN "telemetry"
                           ELSE "respond",
                 !.telemetry = IF call.attempt + 1 < max_retries THEN "none"
                               ELSE "failed"]

\* one pass of the loop of send_telemetry_with_retry
SendTelemetryAttempt(i, outcome) ==
    /\ i \in 1..Len(calls)
    /\ calls[i].phase = "telemetry"
    /\ calls[i].attempt < max_retries
    /\ outcome = "init_failed" => stream = None
    /\ CASE outcome = "init_failed" ->
              /\ stream' = None
              /\ stream_initialized' = FALSE
              /\ calls' = [calls EXCEPT ![i] = AfterFailedAttempt(@, 1)]
         [] outcome = "acked" ->
              /\ stream' = "open"
              /\ stream_initialized' =
                     IF stream = None THEN TRUE ELSE stream_initialized
              /\ calls' = [calls EXCEPT ![i] =
                              [@ EXCEPT !.phase = "respond",
                                        !.telemetry = "sent"]]
         [] outcome = "closed_reinit_ok" ->
              /\ stream' = "open"
              /\ stream_initialized' = TRUE
              /\ calls' = [calls EXCEPT ![i] =
                              AfterFailedAttempt(@, Backoff(@.attempt))]
         [] outcome = "closed_reinit_failed" ->
              /\ stream' = None
              /\ stream_initialized' = FALSE
              /\ calls' = [calls EXCEPT ![i] = AfterFailedAttempt(@, 1)]
         [] outcome = "failed" ->
              /\ stream' = "open"
              /\ stream_initialized' =
                     IF stream = None THEN TRUE ELSE stream_initialized
              /\ calls' = [calls EXCEPT ![i] =
                              AfterFailedAttempt(@, Backoff(@.attempt))]
    /\ UNCHANGED <<rvars, avars, svars, senders, feedback, chat_messages, chat_input_value,
                   welcome_class, chat_list, chat_trigger, chat_history_store,
                   query_running_store, session_store, inputs_disabled,
                   toggle_pending, completed>>

\* what the call answers with
Reply(call) ==
    IF call.failure = None
    THEN BotResponse(call.response_text, Len(call.chat_history))
    ELSE ErrorResponse(call.failure)

\* mutant: the except branch answers no_update for "chat-trigger" and
\* "query-running-store"
GetModelResponseReturnsErrorKeepsRunning(i) ==
    /\ i \in 1..Len(calls)
    /\ calls[i].phase = "respond"
    /\ LET call == calls[i]
           messages == SubSeq(call.current_messages, 1,
                              Len(call.current_messages) - 1)
                       \o <<Reply(call)>>
       IN  /\ chat_messages' = messages
           /\ chat_history_store' =
                  IF call.chat_history # <<>>
                  THEN [call.chat_history EXCEPT ![1].messages = messages]
                  ELSE call.chat_history
           /\ completed' = completed + 1
           /\ IF call.failure = None
              THEN /\ chat_trigger' = NoTrigger
                   /\ query_running_store' = FALSE
                   /\ toggle_pending' = <<FALSE>>
              ELSE UNCHANGED <<chat_trigger, query_running_store, toggle_pending>>
    /\ calls' = RemoveAt(calls, i)
    /\ UNCHANGED <<rvars, avars, svars, senders, feedback, chat_input_value, welcome_class,
                   chat_list, session_store, inputs_disabled, stream,
                   stream_initialized>>

\* get_model_response returns and the page takes its outputs
GetModelResponseReturns(i) ==
    /\ i \in 1..Len(calls)
    /\ calls[i].phase = "respond"
    /\ LET call == calls[i]
           messages == SubSeq(call.current_messages, 1,
                              Len(call.current_messages) - 1)
                       \o <<Reply(call)>>
       IN  /\ chat_messages' = messages
           /\ chat_history_store' =
                  IF call.chat_history # <<>>
                  THEN [call.chat_history EXCEPT ![1].messages = messages]
                  ELSE call.chat_history
           /\ completed' = completed + 1
    /\ chat_trigger' = NoTrigger
    /\ query_running_store' = FALSE
    /\ toggle_pending' = <<FALSE>>
    /\ calls' = RemoveAt(calls, i)
    /\ UNCHANGED <<rvars, avars, svars, senders, feedback, chat_input_value, welcome_class,
                   chat_list, session_store, inputs_disabled, stream,
                   stream_initialized>>

\* toggle_input_disabled answers
ToggleInputDisabled ==
    /\ toggle_pending # <<>>
    /\ inputs_disabled' = toggle_pending[1]
    /\ toggle_pending' = <<>>
    /\ UNCHANGED <<rvars, avars, svars, senders, feedback, chat_messages, chat_input_value,
                   welcome_class, chat_list, chat_trigger, chat_history_store,
                   query_running_store, session_store, calls, completed,
                   stream, stream_initialized>>

\* a new-chat button
reset_to_welcome ==
    /\ ~inputs_disabled
    /\ welcome_class' = "welcome-container visible"
    /\ chat_messages' = <<>>
    /\ chat_trigger' = NoTrigger
    /\ query_running_store' = FALSE
    /\ session_store' = <<>>
    /\ toggle_pending' = <<FALSE>>
    /\ UNCHANGED <<rvars, avars, svars, senders, feedback, chat_input_value, chat_list,
                   chat_history_store, inputs_disabled, calls, completed,
                   stream, stream_initialized>>

\* an item of the chat list
show_chat_history(clicked_index) ==
    /\ clicked_index < Len(chat_list)
    /\ IF chat_history_store = <<>> \/ clicked_index >= Len(chat_history_store)
       THEN UNCHANGED <<chat_messages, welcome_class, chat_list, session_store>>
       ELSE /\ chat_messages' = chat_history_store[clicked_index + 1].messages
            /\ welcome_class' = "welcome-container hidden"
            /\ chat_list' = [i \in 1..Len(chat_list) |->
                                ChatItem(chat_list[i].text, i - 1 = clicked_index)]
            /\ session_store' = <<clicked_index>>
    /\ UNCHANGED <<rvars, avars, svars, senders, feedback, chat_input_value, chat_trigger,
                   chat_history_store, query_running_store, inputs_disabled,
                   toggle_pending, calls, completed, stream,
                   stream_initialized>>

Submissions == Len(calls) + completed

NextDash ==
    \/ \E input_value \in TypedTexts \cup {""} :
          Submissions < MaxSubmissions /\ SendInput(input_value)
    \/ \E text \in SuggestionTexts :
          Submissions < MaxSubmissions /\ ClickSuggestion(text)
    \/ \E i \in 1..MaxSubmissions, sync_result \in DashSyncResults :
          GetModelResponseQueried(i, sync_result)
    \/ \E i \in 1..MaxSubmissions : GetModelResponseQueryRaises(i)
    \/ \E i \in 1..MaxSubmissions : TelemetryRecordRaises(i)
    \/ \E i \in 1..MaxSubmissions, outcome \in AttemptOutcomes :
          SendTelemetryAttempt(i, outcome)
    \/ \E i \in 1..MaxSubmissions : GetModelResponseReturns(i)
    \/ ToggleInputDisabled
    \/ reset_to_welcome
    \/ \E clicked_index \in 0..(MaxSubmissions - 1) :
          show_chat_history(clicked_index)

SpecDash == InitDash /\ [][NextDash]_vars

\* a step of a call of get_model_response that is under way, with a
\* telemetry record that is acknowledged at once or cannot be built
CallStep ==
    \E i \in 1..MaxSubmissions :
        \/ \E sync_result \in DashSyncResults :
              GetModelResponseQueried(i, sync_result)
        \/ GetModelResponseQueryRaises(i)
        \/ TelemetryRecordRaises(i)
        \/ SendTelemetryAttempt(i, "acked")
        \/ GetModelResponseReturns(i)

NextDashFair ==
    \/ \E input_value \in TypedTexts \cup {""} :
          Submissions < MaxSubmissions /\ SendInput(input_value)
    \/ \E text \in SuggestionTexts :
          Submissions < MaxSubmissions /\ ClickSuggestion(text)
    \/ CallStep
    \/ ToggleInputDisabled
    \/ reset_to_welcome
    \/ \E clicked_index \in 0..(MaxSubmissions - 1) :
          show_chat_history(clicked_index)

\* the page when the server runs every callback it was asked for to its
\* return: query_endpoint returns or raises, the telemetry loop ends, and
\* toggle_input_disabled answers; the user may stop clicking at any time
SpecDashFair ==
    /\ InitDash
    /\ [][NextDashFair]_vars
    /\ WF_vars(CallStep)
    /\ WF_vars(ToggleInputDisabled)

\* a user who waits for each answer before the next click: submissions, new
\* chats and selections in the chat list, one call of get_model_response at
\* a time and a telemetry record that is acknowledged at once
NextDashSessions ==
    \/ \E input_value \in TypedTexts :
          /\ Submissions < MaxDashTurns /\ calls = <<>> /\ toggle_pending = <<>>
          /\ SendInput(input_value)
    \/ \E text \in SuggestionTexts :
          /\ Submissions < MaxDashTurns /\ calls = <<>> /\ toggle_pending = <<>>
          /\ ClickSuggestion(text)
    \/ \E sync_result \in DashSyncResults : GetModelResponseQueried(1, sync_result)
    \/ GetModelResponseQueryRaises(1)
    \/ SendTelemetryAttempt(1, "acked")
    \/ GetModelResponseReturns(1)
    \/ ToggleInputDisabled
    \/ calls = <<>> /\ toggle_pending = <<>> /\ reset_to_welcome
    \/ \E clicked_index \in 0..(MaxDashTurns - 1) :
          calls = <<>> /\ toggle_pending = <<>> /\ show_chat_history(clicked_index)

SpecDashSessions == InitDash /\ [][NextDashSessions]_vars

\* ------------------------------------------------- the thumbs of a message
\* "active" in class_name
HasActive(class_name) ==
    class_name \in {"thumbs-up-button active", "thumbs-down-button active"}

\* mutant: the button that was not clicked keeps its class
handle_feedback_keeps_other(button_type, up_class, down_class) ==
    IF button_type = "thumbs-up-button"
    THEN [new_up_class |-> IF ~HasActive(up_class)
                           THEN "thumbs-up-button active"
                           ELSE "thumbs-up-button",
          new_down_class |-> down_class]
    ELSE [new_up_class |-> up_class,
          new_down_class |-> IF ~HasActive(down_class)
                             THEN "thumbs-down-button active"
                             ELSE "thumbs-down-button"]

\* handle_feedback for the button that triggered it
handle_feedback(button_type, up_class, down_class) ==
    IF button_type = "thumbs-up-button"
    THEN [new_up_class |-> IF ~HasActive(up_class)
                           THEN "thumbs-up-button active"
                           ELSE "thumbs-up-button",
          new_down_class |-> "thumbs-down-button"]
    ELSE [new_up_class |-> "thumbs-up-button",
          new_down_class |-> IF ~HasActive(down_class)
                             THEN "thumbs-down-button active"
                             ELSE "thumbs-down-button"]

ButtonTypes == {"thumbs-up-button", "thumbs-down-button"}

Clicks == IF feedback = <<>> THEN 0 ELSE feedback[1].click

\* a click on a thumbs button of the bot message at position k: the callback
\* gets the classes of that message's two buttons and sets them
ClickFeedback(k, button_type) ==
    /\ k \in 1..Len(chat_messages)
    /\ chat_messages[k].kind = "bot"
    /\ LET up_class == chat_messages[k].up_class
           down_class == chat_messages[k].down_class
           out == handle_feedback(button_type, up_class, down_class)
       IN  /\ chat_messages' =
                 [chat_messages EXCEPT ![k].up_class = out.new_up_class,
                                       ![k].down_class = out.new_down_class]
           /\ feedback' = <<[click |-> Clicks + 1,
                             message |-> k,
                             button_type |-> button_type,
                             up_class |-> up_class,
                             down_class |-> down_class,
                             returns |-> out]>>
    /\ UNCHANGED <<rvars, avars, svars, senders, chat_input_value, welcome_class,
                   chat_list, chat_trigger, chat_history_store,
                   query_running_store, session_store, inputs_disabled,
                   toggle_pending, calls, completed, stream,
                   stream_initialized>>

\* the user of the sessions above who also rates the answers
NextFeedback ==
    \/ NextDashSessions
    \/ \E k \in 1..(2 * MaxDashTurns), button_type \in ButtonTypes :
          Clicks < MaxClicks /\ ClickFeedback(k, button_type)

SpecFeedback == InitDash /\ [][NextFeedback]_vars

\* ------------------------------------- send_telemetry_with_retry on its own
\* the page as the calls of send_telemetry_with_retry leave it
PageUnchanged ==
    UNCHANGED <<chat_messages, chat_input_value, welcome_class, chat_list,
                chat_trigger, chat_history_store, query_running_store,
                session_store, inputs_disabled, toggle_pending, calls,
                completed, feedback>>

\* a call of send_telemetry_with_retry at the head of its loop.  handle is
\* the stream object the call has loaded from the global for its ingest:
\* "current" while the global still names it, "stale" once init_zerobus has
\* closed or replaced it
Sender ==
    [pc |-> "check", attempt |-> 0, ingests |-> 0, sleeps |-> 0,
     result |-> "none", handle |-> "none"]

\* init_zerobus(force_reinit): the globals it leaves and what it returns;
\* created says whether ZerobusSdk(...).create_stream(...) succeeded
init_zerobus(force_reinit, created) ==
    IF stream = None \/ force_reinit
    THEN IF created
         THEN [stream |-> "open", stream_initialized |-> TRUE, returns |-> TRUE]
         ELSE [stream |-> None, stream_initialized |-> FALSE, returns |-> FALSE]
    ELSE [stream |-> stream, stream_initialized |-> stream_initialized,
          returns |-> TRUE]
\* mutant: the loop runs while attempt <= max_retries
NextAttemptOneMore(sender, wait) ==
    [sender EXCEPT !.attempt = @ + 1,
                   !.sleeps = IF wait > 0 THEN @ + 1 ELSE @,
                   !.pc = IF sender.attempt < max_retries THEN "check"
                          ELSE "done",
                   !.result = IF sender.attempt < max_retries THEN "none"
                              ELSE "False"]

\* the end of a pass that did not return: time.sleep(wait) when there is a
\* wait, then the next value of range(max_retries) or, after the last one,
\* the return False behind the loop
NextAttempt(sender, wait) ==
    [sender EXCEPT !.attempt = @ + 1,
                   !.sleeps = IF wait > 0 THEN @ + 1 ELSE @,
                   !.pc = IF sender.attempt + 1 < max_retries THEN "check"
                          ELSE "done",
                   !.result = IF sender.attempt + 1 < max_retries THEN "none"
                              ELSE "False"]

\* get_model_response calls send_telemetry_with_retry(record, max_retries=3)
StartSend ==
    /\ Len(senders) < MaxSenders
    /\ senders' = Append(senders, Sender)
    /\ PageUnchanged
    /\ UNCHANGED <<rvars, avars, svars, stream, stream_initialized>>

\* "if stream is None: if not init_zerobus(force_reinit=False): sleep, continue"
CheckStream(i, created) ==
    /\ i \in 1..Len(senders)
    /\ senders[i].pc = "check"
    /\ IF stream = None
       THEN LET init == init_zerobus(FALSE, created)
            IN  /\ stream' = init.stream
                /\ stream_initialized' = init.stream_initialized
                /\ senders' = [senders EXCEPT ![i] =
                                  IF init.returns THEN [@ EXCEPT !.pc = "ingest"]
                                  ELSE NextAttempt(@, 1)]
       ELSE /\ senders' = [senders EXCEPT ![i].pc = "ingest"]
            /\ UNCHANGED <<stream, stream_initialized>>
    /\ PageUnchanged
    /\ UNCHANGED <<rvars, avars, svars>>

\* how stream.ingest_record(record) and ack.wait_for_ack() can go: the record
\* is acknowledged, or one of them raises with or without "closed" or
\* "connection" in its message
IngestOutcomes == {"acked", "closed", "failed"}

\* the load of the global in "stream.ingest_record(record)", outside
\* stream_lock.  A stream that another call's failed init_zerobus has set to
\* None raises AttributeError, whose message holds neither word.
LoadStream(i) ==
    /\ i \in 1..Len(senders)
    /\ senders[i].pc = "ingest"
    /\ senders' = [senders EXCEPT ![i] =
          IF stream = None
          THEN NextAttempt(@, Backoff(@.attempt))
          ELSE [@ EXCEPT !.pc = "ingesting", !.handle = "current"]]
    /\ PageUnchanged
    /\ UNCHANGED <<rvars, avars, svars, stream, stream_initialized>>

\* "ack = stream.ingest_record(record); ack.wait_for_ack(); return True" on
\* the object loaded, and the except clause up to its test of the message
IngestRecord(i, outcome) ==
    /\ i \in 1..Len(senders)
    /\ senders[i].pc = "ingesting"
    /\ LET sender == senders[i]
           ingested == [sender EXCEPT !.ingests = @ + 1, !.handle = "none"]
       IN  senders' = [senders EXCEPT ![i] =
              CASE outcome = "acked" ->
                     [ingested EXCEPT !.pc = "done", !.result = "True"]
                [] outcome = "closed" ->
                     [ingested EXCEPT !.pc = "reinit"]
                [] outcome = "failed" ->
                     NextAttempt(ingested, Backoff(sender.attempt))]
    /\ PageUnchanged
    /\ UNCHANGED <<rvars, avars, svars, stream, stream_initialized>>

\* the calls after init_zerobus(force_reinit=True) ran "stream.close()" and
\* rebound the global: the object another call has loaded is no longer the
\* stream
Replaced(ss) ==
    [k \in 1..Len(ss) |->
        IF ss[k].handle = "current" THEN [ss[k] EXCEPT !.handle = "stale"]
        ELSE ss[k]]

\* "if not init_zerobus(force_reinit=True): sleep(1); continue", else the
\* exponential wait
Reinit(i, created) ==
    /\ i \in 1..Len(senders)
    /\ senders[i].pc = "reinit"
    /\ LET init == init_zerobus(TRUE, created)
           closed == IF stream # None THEN Replaced(senders) ELSE senders
       IN  /\ stream' = init.stream
           /\ stream_initialized' = init.stream_initialized
           /\ senders' = [closed EXCEPT ![i] =
                             NextAttempt(@, IF init.returns
                                            THEN Backoff(@.attempt) ELSE 1)]
    /\ PageUnchanged
    /\ UNCHANGED <<rvars, avars, svars>>

NextTelemetry ==
    \/ StartSend
    \/ \E i \in 1..MaxSenders, created \in BOOLEAN : CheckStream(i, created)
    \/ \E i \in 1..MaxSenders : LoadStream(i)
    \/ \E i \in 1..MaxSenders, outcome \in IngestOutcomes :
          IngestRecord(i, outcome)
    \/ \E i \in 1..MaxSenders, created \in BOOLEAN : Reinit(i, created)

\* request threads of app_dash sending their records, from the import on
SpecTelemetry == InitDash /\ [][NextTelemetry]_vars

\* ---------------------------------------------------- claims about app_dash
\* C14: whatever the telemetry does, a call whose query_endpoint returned
\* answers with the bot message of its response text, never with the error
\* response: that message is the last of the page when the call returns.
C14_TelemetryNeverAltersReply ==
    [][\A i \in 1..Len(calls) :
          (/\ calls[i].phase = "respond"
           /\ calls[i].failure # "endpoint"
           /\ completed' = completed + 1
           /\ calls' = RemoveAt(calls, i)) =>
              /\ chat_messages' # <<>>
              /\ chat_messages'[Len(chat_messages')] =
                    BotResponse(calls[i].response_text,
                                Len(calls[i].chat_history))]_vars

\* every attempt to send the record of a call failed and the call is about
\* to return the bot message
C14_Witness ==
    \E i \in 1..Len(calls) :
        /\ calls[i].phase = "respond"
        /\ calls[i].telemetry = "failed"
        /\ calls[i].attempt = max_retries
        /\ Reply(calls[i]) = BotResponse("Hello", 1)

\* C15: the response of a turn is delivered without waiting for the
\* telemetry: a call whose response is not delivered yet has made no attempt
\* to send the record and has not waited for a retry.
C15_ResponseNotBlocked ==
    \A i \in 1..Len(calls) :
        /\ calls[i].attempt = 0
        /\ calls[i].sleeps = 0
        /\ calls[i].telemetry = "none"

\* C19: from the acceptance of a submission to its response or error no
\* second submission is accepted: at most one call of get_model_response is
\* under way.
C19_OneSubmissionAtATime == Len(calls) <= 1

\* ------------------------------------------- claims of the streamed success
RECURSIVE CompletionsText(_)
\* the content of the chunks that carry some, left to right
CompletionsText(cs) ==
    IF cs = <<>> THEN ""
    ELSE (IF Head(cs).choices = "delta" /\ Head(cs).content \notin {None, ""}
          THEN Head(cs).content ELSE "") \o CompletionsText(Tail(cs))

\* the request id of the last fragment that carried one, None when none did
LastRequestId(cs) ==
    LET carrying == {i \in 1..Len(cs) :
                        cs[i].databricks_output \notin {NoOutput, None, ""}}
    IN  IF carrying = {} THEN None
        ELSE cs[CHOOSE i \in carrying : \A j \in carrying : j <= i].databricks_output

\* C21: when the chat-completions adapter returns what it streamed, the
\* response holds exactly one assistant message whose content is the
\* concatenation of all content fragments in arrival order, with the request
\* id of the last fragment that carried one, or none when no fragment did.
C21_CompletionsReturnsConcatenation ==
    (StreamedDone /\ IsChatCompletions) =>
        response = <<AssistantResponse(
                        <<[role |-> "assistant",
                           content |-> CompletionsText(consumed)]>>,
                        LastRequestId(consumed))>>

\* "lo" with one request id, "lo" with another, then a chunk without choices
\* and without envelope
C21_Witness ==
    /\ StreamedDone /\ IsChatCompletions
    /\ Len(consumed) = 3
    /\ consumed[1].databricks_output = "r1"
    /\ consumed[2].databricks_output = "r2"
    /\ consumed[3].choices \in {"absent", "empty"}
    /\ consumed[3].databricks_output = NoOutput
    /\ response[1].messages[1].content = "lolo"
    /\ response[1].request_id = "r2"

\* the ids of the render targets, in the order the targets were created
TargetIds == [i \in 1..Len(message_buffers) |-> message_buffers[i].id]

\* the deltas of the fragments consumed so far that passed validation
ValidDeltas ==
    LET valid == SelectSeq(consumed, LAMBDA c : c.valid)
    IN  [i \in 1..Len(valid) |-> valid[i].delta]

\* C22: in the chat-agent adapter there is one render target per message id
\* seen, in order of each id's first fragment; a step never removes or
\* reorders targets, creates at most one target and only for a fragment whose
\* id had none, and changes the content of no target but the one of the
\* fragment's own id.
C22_RenderTargetsFirstSeenOrder ==
    /\ [](IsChatAgent => TargetIds = FirstSeen(ValidDeltas))
    /\ [][IsChatAgent =>
            /\ Len(message_buffers') <= Len(message_buffers) + 1
            /\ \A i \in 1..Len(message_buffers) :
                  /\ i <= Len(message_buffers')
                  /\ message_buffers'[i].id = message_buffers[i].id
                  /\ (ConsumesFragment /\ Fragment.valid
                        /\ Fragment.delta.id = message_buffers[i].id)
                     \/ message_buffers'[i].render_area =
                            message_buffers[i].render_area
            /\ Len(message_buffers') = Len(message_buffers) + 1 =>
                  /\ ConsumesFragment /\ Fragment.valid
                  /\ ~HasBuffer(message_buffers, Fragment.delta.id)
                  /\ message_buffers'[Len(message_buffers')].id =
                         Fragment.delta.id]_vars

\* fragments of A, B, A: the third one updated the first target and left
\* the second one, created later, in its place
C22_Witness ==
    /\ IsChatAgent /\ pc = "stream"
    /\ Len(consumed) = 3
    /\ consumed[1].delta.id = "A"
    /\ consumed[2].delta.id = "B"
    /\ consumed[3].delta.id = "A"
    /\ TargetIds = <<"A", "B">>
    /\ message_buffers[1].render_area.messages[1].content = "Hello"
    /\ message_buffers[2].render_area.messages[1].content = "lo"

\* C23: in the chat-completions adapter, once a fragment with non-empty
\* content has been processed the placeholder shows the concatenation of the
\* content of all fragments received so far: the whole buffer, not the
\* delta.
C23_CompletionsDisplaysWholeBuffer ==
    [][(IsChatCompletions /\ ConsumesFragment /\ Fragment.choices = "delta"
          /\ Truthy(Fragment.content))
       => response_area' = Markdown(CompletionsText(consumed'))]_vars

\* "Hel", a chunk without content, "lo": the placeholder shows "Hello"
C23_Witness ==
    /\ IsChatCompletions /\ pc = "stream"
    /\ Len(consumed) = 3
    /\ consumed[1].content = "Hel"
    /\ ~Truthy(consumed[2].content)
    /\ consumed[3].content = "lo"
    /\ response_area = Markdown("Hello")

\* C24: in the responses adapter, after every event that was processed the
\* placeholder shows the full ordered list of the messages accumulated so
\* far, and still the thinking text while no message has been accumulated.
C24_ResponsesDisplaysWholeList ==
    [][(IsResponses /\ ConsumesFragment /\ pc' = "stream") =>
          /\ all_messages' = ExpectedOfItems(TypedItems')
          /\ response_area' = (IF all_messages' = <<>> THEN Thinking
                               ELSE Container(all_messages'))]_vars

\* the second event added one message to a list that already held some, a
\* third event added none: the placeholder shows all of them
C24_Witness ==
    /\ IsResponses /\ pc = "stream"
    /\ Len(consumed) = 3
    /\ EventMessages(consumed[1]) # <<>>
    /\ Len(EventMessages(consumed[2])) = 1
    /\ EventMessages(consumed[3]) = <<>>
    /\ Len(all_messages) >= 2
    /\ response_area = Container(all_messages)

\* --------------------------------------- claims of the reducer's tool calls
\* the tool-call deltas of the fragments that reference a call id
ReferencingDeltas(cs) ==
    SelectSeq(ToolCallDeltasIn(cs), LAMBDA tc : Truthy(tc.id))

\* the call ids of a list of tool calls, in list order
IdsOf(tcs) == [i \in 1..Len(tcs) |-> tcs[i].id]

\* C25: the tool calls of the reduced message that carry a call id are
\* listed in the order in which the ids first appeared in the fragments, one
\* entry per distinct id, however the deltas of the ids interleave.
C25_ToolCallsInFirstAppearanceOrder ==
    \A k \in 1..Len(results) :
        IdsOf(SelectSeq(ToolCallsOf(results[k]), LAMBDA e : Truthy(e.id)))
            = FirstSeen(ReferencingDeltas(received))

\* deltas of c2, c1, c2 in that order
C25_Witness ==
    /\ Len(results) >= 1
    /\ IdsOf(ReferencingDeltas(received)) = <<"c2", "c1", "c2">>
    /\ IdsOf(ToolCallsOf(results[1])) = <<"c2", "c1">>

\* no fragment carries a tool-call delta: tool_calls is None or [] everywhere
NoToolCallDelta(cs) ==
    \A i \in 1..Len(cs) : ~TruthyList(cs[i].delta.tool_calls)

\* C26: for fragments none of which carries a tool-call delta the reduced
\* message has its tool calls absent, not an empty list.
C26_NoToolCallDeltaMeansAbsent ==
    \A k \in 1..Len(results) :
        NoToolCallDelta(received) => results[k].tool_calls = NoList

\* --------------------------------------------------- claims of termination
\* the adapter is between its call of query_endpoint_stream and its end
Exchanging == pc \in {"stream", "fallback"}

Passes(sender) ==
    sender.attempt + (IF sender.pc \in {"ingest", "ingesting", "reinit"}
                         \/ sender.result = "True" THEN 1 ELSE 0)

\* C28: a call of send_telemetry_with_retry begins at most max_retries passes
\* and calls ingest at most once in each; it returns True in the pass whose
\* ingest was acknowledged and begins no other, returns False after
\* max_retries passes none of which was acknowledged, whatever failed in
\* them, and ends in no other way; a call that has returned does nothing more.
C28_TelemetryRetryBounded ==
    /\ [](\A i \in 1..Len(senders) :
            LET sender == senders[i]
            IN  /\ Passes(sender) <= max_retries
                /\ sender.ingests <= Passes(sender)
                /\ sender.pc = "done" <=> sender.result \in {"True", "False"}
                /\ sender.pc # "done" => sender.result = "none"
                /\ sender.result = "True" => sender.ingests >= 1
                /\ sender.result = "False" => sender.attempt = max_retries)
    /\ [][\A i \in 1..Len(senders) :
            /\ senders'[i].attempt >= senders[i].attempt
            /\ senders'[i].ingests <= senders[i].ingests + 1
            /\ senders'[i].result = "True" /\ senders[i].result # "True" =>
                  /\ senders[i].pc = "ingesting"
                  /\ senders'[i].ingests = senders[i].ingests + 1
            /\ senders[i].pc = "done" => senders'[i] = senders[i]]_vars

\* two passes that failed, one of them before it reached ingest, and a third
\* pass whose ingest was acknowledged
C28_Witness ==
    \E i \in 1..Len(senders) :
        /\ senders[i].result = "True"
        /\ senders[i].attempt = max_retries - 1
        /\ senders[i].ingests = 2
        /\ senders[i].sleeps = 2

\* ------------------------------------------ claims of the sessions of app_dash
\* handle_all_inputs accepted a submission
Accepted == Len(calls') = Len(calls) + 1

\* C29: a submission accepted in a session changes the entry of no other
\* session: every entry of the chat-history store that does not hold the
\* conversation the page shows is still in the store, queries and messages
\* unchanged.
C29_SubmissionTouchesOwnEntryOnly ==
    [][Accepted =>
          \A k \in 1..Len(chat_history_store) :
              chat_history_store[k].messages # chat_messages =>
                  \E j \in 1..Len(chat_history_store') :
                      chat_history_store'[j] = chat_history_store[k]]_vars

\* C30: when get_model_response returns, its bot or error response is stored
\* in the entry of the session that issued the query, the one in which
\* handle_all_inputs recorded it; every other entry is as the call received
\* it.
C30_ResponseStoredInIssuingSession ==
    [][\A i \in 1..Len(calls) :
          (/\ calls[i].phase = "respond"
           /\ completed' = completed + 1
           /\ calls' = RemoveAt(calls, i)) =>
              \A k \in 1..Len(calls[i].chat_history) :
                  calls[i].chat_history[k].messages # calls[i].current_messages =>
                      chat_history_store'[k] = calls[i].chat_history[k]]_vars

\* ------------------------------------- claims about failures and feedback
\* a log of user turns each followed by one assistant response
Alternates(log) ==
    /\ Len(log) % 2 = 0
    /\ \A k \in 1..Len(log) : IsUserMessage(log[k]) <=> k % 2 = 1

\* C31: once the handling of a submission has ended, by a return or by an
\* exception, the conversation log alternates user turn and assistant
\* response, starting with a user turn.
C31_LogAlternatesAfterHandling == Waiting => Alternates(history)

\* a call ingests its record in this step
Ingests(i) ==
    /\ i \in 1..Len(senders)
    /\ senders'[i].ingests = senders[i].ingests + 1

\* C32: with several calls of send_telemetry_with_retry under way, a record
\* is ingested only on the stream the global names at that moment, never on
\* one that init_zerobus has closed or replaced since the call loaded it.
C32_NoIngestOnClosedStream ==
    [][\A i \in 1..MaxSenders :
          Ingests(i) => senders[i].handle = "current"]_vars

\* C33: a query that handle_all_inputs triggered is followed by the reset of
\* "chat-trigger" to trigger False and of "query-running-store" to False:
\* the return of get_model_response resets both after a response and after
\* an error alike, every call under way returns, and the inputs are enabled
\* again once the calls have returned.
C33_TriggeredQueryIsReset ==
    /\ [][completed' = completed + 1 =>
             /\ chat_trigger' = NoTrigger
             /\ query_running_store' = FALSE
             /\ toggle_pending' = <<FALSE>>]_vars
    /\ [](Len(calls) > 0 =>
             <>(/\ calls = <<>>
                /\ ~chat_trigger.trigger
                /\ ~query_running_store
                /\ ~inputs_disabled))

\* a call whose query_endpoint raised has returned, the page shows its error
\* response and the inputs are enabled again
C33_Witness ==
    /\ completed >= 1
    /\ calls = <<>>
    /\ chat_messages # <<>>
    /\ chat_messages[Len(chat_messages)] = ErrorResponse("endpoint")
    /\ ~chat_trigger.trigger
    /\ ~query_running_store
    /\ ~inputs_disabled
    /\ toggle_pending = <<>>

\* C34: when an adapter has returned an AssistantResponse the placeholder no
\* longer shows "_Thinking..._", whatever the stream yielded.
C34_ThinkingReplacedOnReturn ==
    (pc = "done" /\ response # <<>>) => response_area # Thinking

\* the bot messages on the page
BotMessages == {k \in 1..Len(chat_messages) : chat_messages[k].kind = "bot"}

====
